---- MODULE Spec2Model ----
(***************************************************************************)
(* datashuttle: subject / session folder names of a project kept in a      *)
(* local and a central location, the suggestion of the next subject or     *)
(* session number, and the validation of names against the project.        *)
(*                                                                         *)
(* A folder name "<prefix>-<value><rest>" is the record                    *)
(*   [val |-> digits of the value after the prefix, sfx |-> rest]          *)
(* where sfx = 0 stands for no further key-value pairs and sfx = k > 0 for *)
(* the k-th distinct tail ("_id-123", "_date-1605", ...).  The prefix is   *)
(* given by the level the name sits at (sub-* at the top level, ses-*      *)
(* inside a subject).  Two names are the same string iff the records are   *)
(* equal.                                                                  *)
(***************************************************************************)
EXTENDS Integers, Sequences, FiniteSets, TLC

VARIABLES local, central, out, persistent_settings, cfg, tui

vars == <<local, central, out, persistent_settings, cfg, tui>>

(***************************************************************************)
(* Bounds of the model.                                                    *)
(***************************************************************************)
\* folders (subjects plus sessions) that exist in local and central together
MaxFolders == 2
\* names in one list of a request (sub_names, ses_names)
MaxBatch == 2
\* largest default_num_value_digits a caller passes
MaxDefaultDigits == 3

Name(v, s) == [val |-> v, sfx |-> s]

\* `sub=None`: no subject given
NoSub == Name(<<>>, 0)

\* The folder names that requests and the filesystem draw from:
\* sub-9, sub-9_id-a, sub-9_id-b, sub-09, sub-08 (ses-... at the session
\* level).
Names ==
    {Name(<<9>>, 0), Name(<<9>>, 1), Name(<<9>>, 2),
     Name(<<0, 9>>, 0), Name(<<0, 8>>, 0)}

DefaultDigits == 1 .. MaxDefaultDigits

(***************************************************************************)
(* Strings of digits: str(), int(), str.zfill().                           *)
(***************************************************************************)
RECURSIVE StrOfInt(_)
StrOfInt(n) == IF n < 10 THEN <<n>> ELSE StrOfInt(n \div 10) \o <<n % 10>>

RECURSIVE sub_or_ses_value_to_int(_)
sub_or_ses_value_to_int(value) ==
    IF value = <<>> THEN 0
    ELSE 10 * sub_or_ses_value_to_int(SubSeq(value, 1, Len(value) - 1))
         + value[Len(value)]

\* str.zfill forgotten: the number is returned as str() gives it
ZFillNone(s, width) == s

RECURSIVE ZFill(_, _)
ZFill(s, width) == IF Len(s) >= width THEN s ELSE ZFill(<<0>> \o s, width)

(***************************************************************************)
(* Lists.                                                                  *)
(***************************************************************************)
Range(s) == {s[i] : i \in DOMAIN s}

SeqMax(s) == CHOOSE x \in Range(s) : \A y \in Range(s) : y <= x

\* key of a name in a directory listing sorted by name
NameKey(n) == 1000 * Len(n.val) + 10 * sub_or_ses_value_to_int(n.val) + n.sfx

\* The names of S as a directory listing: ascending, or descending when rev
RECURSIVE Listing(_, _)
Listing(S, rev) ==
    IF S = {} THEN <<>>
    ELSE LET first == CHOOSE n \in S :
                          \A m \in S : IF rev THEN NameKey(m) <= NameKey(n)
                                              ELSE NameKey(n) <= NameKey(m)
         IN  <<first>> \o Listing(S \ {first}, rev)

\* sorted(list of ints), duplicates kept
RECURSIVE SortedInts(_)
SortedInts(s) ==
    IF s = <<>> THEN <<>>
    ELSE LET i == CHOOSE i \in DOMAIN s : \A j \in DOMAIN s : s[i] <= s[j]
         IN  <<s[i]>> \o SortedInts([k \in 1 .. Len(s) - 1 |->
                                        IF k < i THEN s[k] ELSE s[k + 1]])

\* the lists without repetition of at most n names of S
RECURSIVE Batches(_, _)
Batches(S, n) ==
    IF n = 0 THEN {<<>>}
    ELSE LET shorter == Batches(S, n - 1)
         IN  shorter \cup {Append(b, x) : b \in {c \in shorter : Len(c) = n - 1},
                                          x \in S}

DistinctBatches(S, n) ==
    {b \in Batches(S, n) : \A i, j \in DOMAIN b : i # j => b[i] # b[j]}

(***************************************************************************)
(* A location's folder tree: subject name -> set of session names.         *)
(***************************************************************************)
EmptyTree == [s \in {} |-> {}]

SesOf(tree, sub) == IF sub \in DOMAIN tree THEN tree[sub] ELSE {}

RECURSIVE SumSes(_, _)
SumSes(tree, S) ==
    IF S = {} THEN 0
    ELSE LET s == CHOOSE s \in S : TRUE
         IN  Cardinality(tree[s]) + SumSes(tree, S \ {s})

NFolders(tree) == Cardinality(DOMAIN tree) + SumSes(tree, DOMAIN tree)

AddSub(tree, sub) ==
    [s \in DOMAIN tree \cup {sub} |-> SesOf(tree, s)]

AddSes(tree, sub, ses) ==
    [s \in DOMAIN tree \cup {sub} |->
        IF s = sub THEN SesOf(tree, s) \cup {ses} ELSE SesOf(tree, s)]

RmSub(tree, sub) == [s \in DOMAIN tree \ {sub} |-> tree[s]]

RmSes(tree, sub, ses) ==
    [s \in DOMAIN tree |-> IF s = sub THEN tree[s] \ {ses} ELSE tree[s]]

(***************************************************************************)
(* folders.search_project_for_sub_or_ses_names: the folder names at the    *)
(* top level (no subject) or inside the subject, per location; central is  *)
(* not searched when local_only.                                           *)
(***************************************************************************)
LevelNames(tree, sub) == IF sub = NoSub THEN DOMAIN tree ELSE SesOf(tree, sub)

search_project_for_sub_or_ses_names(loc, cen, sub, local_only, rev) ==
    [local   |-> Listing(LevelNames(loc, sub), rev),
     central |-> IF local_only THEN <<>>
                 ELSE Listing(LevelNames(cen, sub), rev)]

\* utils.get_values_from_bids_formatted_name(..., return_as_int=False)
get_values_from_bids_formatted_name(all_names) ==
    [i \in DOMAIN all_names |-> all_names[i].val]

\* utils.integers_are_consecutive
integers_are_consecutive(ints) ==
    \A i \in 1 .. Len(ints) - 1 : ints[i + 1] - ints[i] = 1

(***************************************************************************)
(* getters.get_max_sub_or_ses_num_and_value_length                         *)
(***************************************************************************)
\* the number of digits of the first value is taken, whatever the others are
get_max_with_first_length(all_folders, default_num_value_digits) ==
    IF Len(all_folders) = 0
    THEN [err |-> FALSE, max_existing_num |-> 0,
          num_value_digits |-> default_num_value_digits, warned |-> FALSE]
    ELSE LET all_value_nums ==
                 SortedInts([i \in DOMAIN all_folders |->
                                sub_or_ses_value_to_int(all_folders[i].val)])
         IN  [err |-> FALSE,
              max_existing_num |-> SeqMax(all_value_nums),
              num_value_digits |-> Len(all_folders[1].val),
              warned |-> ~integers_are_consecutive(all_value_nums)]

\* values that are not consecutive raise
get_max_raising_on_gaps(all_folders, default_num_value_digits) ==
    IF Len(all_folders) = 0
    THEN [err |-> FALSE, max_existing_num |-> 0,
          num_value_digits |-> default_num_value_digits, warned |-> FALSE]
    ELSE LET all_value_nums ==
                 SortedInts([i \in DOMAIN all_folders |->
                                sub_or_ses_value_to_int(all_folders[i].val)])
         IN  IF \/ Cardinality({Len(all_folders[i].val) : i \in DOMAIN all_folders}) # 1
                \/ ~integers_are_consecutive(all_value_nums)
             THEN [err |-> TRUE, max_existing_num |-> 0,
                   num_value_digits |-> 0, warned |-> FALSE]
             ELSE [err |-> FALSE,
                   max_existing_num |-> SeqMax(all_value_nums),
                   num_value_digits |-> Len(all_folders[1].val),
                   warned |-> FALSE]

\* the default number of digits used whether or not folders exist
get_max_always_default_digits(all_folders, default_num_value_digits) ==
    IF Len(all_folders) = 0
    THEN [err |-> FALSE, max_existing_num |-> 0,
          num_value_digits |-> default_num_value_digits, warned |-> FALSE]
    ELSE LET all_value_nums ==
                 SortedInts([i \in DOMAIN all_folders |->
                                sub_or_ses_value_to_int(all_folders[i].val)])
         IN  IF Cardinality({Len(all_folders[i].val) : i \in DOMAIN all_folders}) # 1
             THEN [err |-> TRUE, max_existing_num |-> 0,
                   num_value_digits |-> 0, warned |-> FALSE]
             ELSE [err |-> FALSE,
                   max_existing_num |-> SeqMax(all_value_nums),
                   num_value_digits |-> default_num_value_digits,
                   warned |-> ~integers_are_consecutive(all_value_nums)]

get_max_sub_or_ses_num_and_value_length(all_folders, default_num_value_digits) ==
    IF Len(all_folders) = 0
    THEN [err |-> FALSE, max_existing_num |-> 0,
          num_value_digits |-> default_num_value_digits, warned |-> FALSE]
    ELSE LET all_values_str == get_values_from_bids_formatted_name(all_folders)
             all_num_value_digits ==
                 [i \in DOMAIN all_values_str |-> Len(all_values_str[i])]
             all_value_nums ==
                 SortedInts([i \in DOMAIN all_values_str |->
                                sub_or_ses_value_to_int(all_values_str[i])])
         IN  IF Cardinality(Range(all_num_value_digits)) # 1
             THEN [err |-> TRUE, max_existing_num |-> 0,
                   num_value_digits |-> 0, warned |-> FALSE]
             ELSE [err |-> FALSE,
                   max_existing_num |-> SeqMax(all_value_nums),
                   num_value_digits |-> all_num_value_digits[1],
                   warned |-> ~integers_are_consecutive(all_value_nums)]

(***************************************************************************)
(* getters.get_next_sub_or_ses_number                                      *)
(***************************************************************************)
\* local + central without set(): a name in both locations is counted twice
get_next_without_set(loc, cen, sub, local_only, return_with_prefix, default_num_value_digits, rev) ==
    LET prefix == IF sub # NoSub THEN "ses" ELSE "sub"
        folder_names ==
            search_project_for_sub_or_ses_names(loc, cen, sub, local_only, rev)
        all_folders == folder_names.local \o folder_names.central
        got == get_max_sub_or_ses_num_and_value_length(
                   all_folders, default_num_value_digits)
    IN  IF got.err
        THEN [err |-> TRUE, prefix |-> "", digits |-> <<>>, warned |-> FALSE]
        ELSE [err |-> FALSE,
              prefix |-> IF return_with_prefix THEN prefix ELSE "",
              digits |-> ZFill(StrOfInt(got.max_existing_num + 1),
                               got.num_value_digits),
              warned |-> got.warned]

get_next_sub_or_ses_number(loc, cen, sub, local_only, return_with_prefix, default_num_value_digits, rev) ==
    LET prefix == IF sub # NoSub THEN "ses" ELSE "sub"
        folder_names ==
            search_project_for_sub_or_ses_names(loc, cen, sub, local_only, rev)
        \* list(set(local + central))
        all_folders ==
            Listing(Range(folder_names.local \o folder_names.central), rev)
        got == get_max_sub_or_ses_num_and_value_length(
                   all_folders, default_num_value_digits)
        suggested_new_num == got.max_existing_num + 1
        format_suggested_new_num ==
            ZFill(StrOfInt(suggested_new_num), got.num_value_digits)
    IN  IF got.err
        THEN [err |-> TRUE, prefix |-> "", digits |-> <<>>, warned |-> FALSE]
        ELSE [err |-> FALSE,
              prefix |-> IF return_with_prefix THEN prefix ELSE "",
              digits |-> format_suggested_new_num,
              warned |-> got.warned]

(***************************************************************************)
(* getters.get_all_sub_and_ses_names: every subject name (local then       *)
(* central, concatenated) and, per subject name found, its session names   *)
(* (local then central).                                                   *)
(***************************************************************************)
\* the central names are put before the local ones
get_all_central_first(loc, cen, local_only, rev) ==
    LET sub_folder_names ==
            search_project_for_sub_or_ses_names(loc, cen, NoSub, local_only, rev)
        all_sub_folder_names ==
            IF local_only THEN sub_folder_names.local
            ELSE sub_folder_names.central \o sub_folder_names.local
        ses_folder_names(sub) ==
            search_project_for_sub_or_ses_names(loc, cen, sub, local_only, rev)
    IN  [sub |-> all_sub_folder_names,
         ses |-> [sub \in Range(all_sub_folder_names) |->
                     IF local_only THEN ses_folder_names(sub).local
                     ELSE ses_folder_names(sub).central
                          \o ses_folder_names(sub).local]]

\* the flag local_only is not looked at: both locations are always combined
get_all_ignoring_local_only(loc, cen, local_only, rev) ==
    LET sub_folder_names ==
            search_project_for_sub_or_ses_names(loc, cen, NoSub, FALSE, rev)
        all_sub_folder_names ==
            sub_folder_names.local \o sub_folder_names.central
        ses_folder_names(sub) ==
            search_project_for_sub_or_ses_names(loc, cen, sub, FALSE, rev)
    IN  [sub |-> all_sub_folder_names,
         ses |-> [sub \in Range(all_sub_folder_names) |->
                     ses_folder_names(sub).local
                     \o ses_folder_names(sub).central]]

\* the central subject names are left out of the combined list
get_all_without_central_subs(loc, cen, local_only, rev) ==
    LET sub_folder_names ==
            search_project_for_sub_or_ses_names(loc, cen, NoSub, local_only, rev)
        all_sub_folder_names == sub_folder_names.local
        ses_folder_names(sub) ==
            search_project_for_sub_or_ses_names(loc, cen, sub, local_only, rev)
    IN  [sub |-> all_sub_folder_names,
         ses |-> [sub \in Range(all_sub_folder_names) |->
                     IF local_only THEN ses_folder_names(sub).local
                     ELSE ses_folder_names(sub).local
                          \o ses_folder_names(sub).central]]

\* the sessions are searched for under the project, not under the subject:
\* every subject gets the session names of all subjects
get_all_ses_of_any_sub(loc, cen, local_only, rev) ==
    LET sub_folder_names ==
            search_project_for_sub_or_ses_names(loc, cen, NoSub, local_only, rev)
        all_sub_folder_names ==
            IF local_only THEN sub_folder_names.local
            ELSE sub_folder_names.local \o sub_folder_names.central
        every_ses(tree) ==
            Listing(UNION {SesOf(tree, sub) : sub \in DOMAIN tree}, rev)
    IN  [sub |-> all_sub_folder_names,
         ses |-> [sub \in Range(all_sub_folder_names) |->
                     IF local_only THEN every_ses(loc)
                     ELSE every_ses(loc) \o every_ses(cen)]]

\* the central session names are left out of the combined lists
get_all_without_central_ses(loc, cen, local_only, rev) ==
    LET sub_folder_names ==
            search_project_for_sub_or_ses_names(loc, cen, NoSub, local_only, rev)
        all_sub_folder_names ==
            IF local_only THEN sub_folder_names.local
            ELSE sub_folder_names.local \o sub_folder_names.central
        ses_folder_names(sub) ==
            search_project_for_sub_or_ses_names(loc, cen, sub, local_only, rev)
    IN  [sub |-> all_sub_folder_names,
         ses |-> [sub \in Range(all_sub_folder_names) |->
                     ses_folder_names(sub).local]]

get_all_sub_and_ses_names(loc, cen, local_only, rev) ==
    LET sub_folder_names ==
            search_project_for_sub_or_ses_names(loc, cen, NoSub, local_only, rev)
        all_sub_folder_names ==
            IF local_only THEN sub_folder_names.local
            ELSE sub_folder_names.local \o sub_folder_names.central
        ses_folder_names(sub) ==
            search_project_for_sub_or_ses_names(loc, cen, sub, local_only, rev)
    IN  [sub |-> all_sub_folder_names,
         ses |-> [sub \in Range(all_sub_folder_names) |->
                     IF local_only THEN ses_folder_names(sub).local
                     ELSE ses_folder_names(sub).local
                          \o ses_folder_names(sub).central]]

(***************************************************************************)
(* Validation.  An issue is                                                *)
(*   [kind |-> "pad" | "dup", prefix |-> "sub" | "ses",                    *)
(*    new |-> the name checked, exist |-> the folder it clashes with,      *)
(*    under |-> the subject whose sessions were being checked]             *)
(* with NoSub where a field does not apply.                                *)
(***************************************************************************)
PadIssue(prefix, under) ==
    [kind |-> "pad", prefix |-> prefix, new |-> NoSub, exist |-> NoSub,
     under |-> under]

DupIssue(prefix, new, exist, under) ==
    [kind |-> "dup", prefix |-> prefix, new |-> new, exist |-> exist,
     under |-> under]

RECURSIVE Flatten(_)
Flatten(ss) == IF ss = <<>> THEN <<>> ELSE Head(ss) \o Flatten(Tail(ss))

\* "Inconsistent value lengths for the key {prefix} were found."
value_lengths_are_inconsistent(names_list, prefix, under) ==
    IF Cardinality({Len(names_list[i].val) : i \in DOMAIN names_list}) > 1
    THEN <<PadIssue(prefix, under)>>
    ELSE <<>>

\* the existing name is not compared with the new name itself
new_name_duplicates_identical(new_name, existing_names, prefix, under) ==
    LET new_name_id == sub_or_ses_value_to_int(new_name.val)
        clash(exist_name) ==
            sub_or_ses_value_to_int(exist_name.val) = new_name_id
    IN  Flatten([i \in DOMAIN existing_names |->
                    IF clash(existing_names[i])
                    THEN <<DupIssue(prefix, new_name, existing_names[i], under)>>
                    ELSE <<>>])

\* "A {prefix} already exists with the same {prefix} id as {new_name}.
\*  The existing folder is {exist_name}."
new_name_duplicates_existing(new_name, existing_names, prefix, under) ==
    LET new_name_id == sub_or_ses_value_to_int(new_name.val)
        clash(exist_name) ==
            /\ sub_or_ses_value_to_int(exist_name.val) = new_name_id
            /\ exist_name # new_name
    IN  Flatten([i \in DOMAIN existing_names |->
                    IF clash(existing_names[i])
                    THEN <<DupIssue(prefix, new_name, existing_names[i], under)>>
                    ELSE <<>>])

\* the keys a dict gets when filled in the order of a list: first occurrences
RECURSIVE DictKeys(_)
DictKeys(names) ==
    IF names = <<>> THEN <<>>
    ELSE LET front == DictKeys(SubSeq(names, 1, Len(names) - 1))
             last == names[Len(names)]
         IN  IF last \in Range(front) THEN front ELSE Append(front, last)

\* the names of a list other than the one at position i
Others(names, i) ==
    [k \in 1 .. Len(names) - 1 |-> IF k < i THEN names[k] ELSE names[k + 1]]

\* duplicate check of every name of a list against the existing names and
\* the other names of the list
duplicated_prefix_values(names, existing_names, prefix, under) ==
    Flatten([i \in DOMAIN names |->
                new_name_duplicates_existing(
                    names[i], existing_names \o Others(names, i), prefix, under)])

\* one level of the scan: value lengths, then duplicates
ScanLevel(new_names, existing_names, prefix, under) ==
    value_lengths_are_inconsistent(new_names \o existing_names, prefix, under)
    \o duplicated_prefix_values(new_names, existing_names, prefix, under)

\* the sessions found under a subject name (none when it does not exist)
ExistingSes(folder_names, sub) ==
    IF sub \in DOMAIN folder_names.ses THEN folder_names.ses[sub] ELSE <<>>

\* the candidate sessions are compared with the sessions of every subject
ScanNamesAgainstAllSessions(folder_names, sub_names, ses_names) ==
    LET keyseq == DictKeys(folder_names.sub)
        all_ses_names ==
            Flatten([i \in DOMAIN keyseq |-> folder_names.ses[keyseq[i]]])
    IN  ScanLevel(sub_names, folder_names.sub, "sub", NoSub)
        \o (IF ses_names = <<>> THEN <<>>
            ELSE Flatten([i \in DOMAIN sub_names |->
                     ScanLevel(ses_names, all_ses_names, "ses", sub_names[i])]))

\* Every issue validate_names_against_project finds, in the order found:
\* the subject level, then the session level of each requested subject.
ScanNamesAgainstProject(folder_names, sub_names, ses_names) ==
    ScanLevel(sub_names, folder_names.sub, "sub", NoSub)
    \o (IF ses_names = <<>> THEN <<>>
        ELSE Flatten([i \in DOMAIN sub_names |->
                 ScanLevel(ses_names, ExistingSes(folder_names, sub_names[i]),
                           "ses", sub_names[i])]))

\* Every issue validate_project finds, in the order found: the subject
\* names, then the value lengths of all session names of the project, then
\* the session names of each subject.
ScanProject(folder_names) ==
    LET subs == folder_names.sub
        \* the keys of the dict of session names, in insertion order
        keyseq == DictKeys(subs)
        all_ses_names ==
            Flatten([i \in DOMAIN keyseq |-> folder_names.ses[keyseq[i]]])
    IN  ScanLevel(subs, <<>>, "sub", NoSub)
        \o value_lengths_are_inconsistent(all_ses_names, "ses", NoSub)
        \o Flatten([i \in DOMAIN keyseq |->
               duplicated_prefix_values(folder_names.ses[keyseq[i]], <<>>,
                                        "ses", keyseq[i])])

\* only the first issue is warned about
ReportFirstOnly(issues, error_or_warn) ==
    IF error_or_warn = "error"
    THEN [raised |-> issues # <<>>,
          error |-> IF issues # <<>> THEN <<Head(issues)>> ELSE <<>>,
          warnings |-> <<>>]
    ELSE [raised |-> FALSE, error |-> <<>>,
          warnings |-> IF issues # <<>> THEN <<Head(issues)>> ELSE <<>>]

\* utils.raise_error / warnings.warn: in "error" mode the first issue found
\* is raised and nothing after it runs; in "warn" mode each issue is warned
\* about and the scan goes on.
Report(issues, error_or_warn) ==
    IF error_or_warn = "error"
    THEN [raised |-> issues # <<>>,
          error |-> IF issues # <<>> THEN <<Head(issues)>> ELSE <<>>,
          warnings |-> <<>>]
    ELSE [raised |-> FALSE, error |-> <<>>, warnings |-> issues]

validate_names_against_project(loc, cen, sub_names, ses_names, local_only, error_or_warn, rev) ==
    Report(ScanNamesAgainstProject(
               get_all_sub_and_ses_names(loc, cen, local_only, rev),
               sub_names, ses_names),
           error_or_warn)

validate_project(loc, cen, local_only, error_or_warn, rev) ==
    Report(ScanProject(get_all_sub_and_ses_names(loc, cen, local_only, rev)),
           error_or_warn)

(***************************************************************************)
(* project.make_folders: the names are validated against the local         *)
(* project in "error" mode; the folder trees are made only when that       *)
(* returns.                                                                *)
(***************************************************************************)
RECURSIVE make_folder_trees(_, _, _)
make_folder_trees(tree, sub_names, ses_names) ==
    IF sub_names = <<>> THEN tree
    ELSE LET sub == Head(sub_names)
             with_sub == AddSub(tree, sub)
             with_ses ==
                 [s \in DOMAIN with_sub |->
                     IF s = sub THEN with_sub[s] \cup Range(ses_names)
                     ELSE with_sub[s]]
         IN  make_folder_trees(with_ses, Tail(sub_names), ses_names)

\* each subject is validated and made in turn: the subjects before the
\* failing one are already on disk when the error is raised
RECURSIVE make_folders_one_by_one(_, _, _, _, _)
make_folders_one_by_one(loc, cen, sub_names, ses_names, rev) ==
    IF sub_names = <<>> THEN [raised |-> FALSE, error |-> <<>>, local |-> loc]
    ELSE LET checked == validate_names_against_project(
                            loc, cen, <<Head(sub_names)>>, ses_names,
                            TRUE, "error", rev)
         IN  IF checked.raised
             THEN [raised |-> TRUE, error |-> checked.error, local |-> loc]
             ELSE make_folders_one_by_one(
                      make_folder_trees(loc, <<Head(sub_names)>>, ses_names),
                      cen, Tail(sub_names), ses_names, rev)

make_folders(loc, cen, sub_names, ses_names, rev) ==
    LET checked == validate_names_against_project(
                       loc, cen, sub_names, ses_names, TRUE, "error", rev)
    IN  [raised |-> checked.raised,
         error |-> checked.error,
         local |-> IF checked.raised THEN loc
                   ELSE make_folder_trees(loc, sub_names, ses_names)]

(***************************************************************************)
(* Persistent settings.  The settings file of a project holds a dict;      *)
(* every project instance opened on the project reads and writes the same  *)
(* file.  `persistent_settings` is the file (is_file FALSE when it is not  *)
(* on disk), `cfg` the attributes each instance took from it when opened.  *)
(***************************************************************************)
\* project instances alive at once (`project`, `project_reload`)
MaxInstances == 2

Instances == 1 .. MaxInstances

\* Python's None where a regular expression string may stand
None == <<"None">>

get_tui_config_defaults ==
    [tui |-> [checkboxes_on |-> [behav |-> TRUE, ephys |-> TRUE,
                                 funcimg |-> TRUE, anat |-> TRUE]]]

\* name templates that are on although nothing was set
name_templates_defaults_on ==
    [name_templates |-> [on |-> TRUE, sub |-> None, ses |-> None]]

get_name_templates_defaults ==
    [name_templates |-> [on |-> FALSE, sub |-> None, ses |-> None]]

\* settings.update(other)
DictUpdate(settings, other) ==
    [k \in DOMAIN settings \cup DOMAIN other |->
        IF k \in DOMAIN other THEN other[k] ELSE settings[k]]

\* defaults whose top level folder is "derivatives"
persistent_settings_defaults_derivatives ==
    DictUpdate(DictUpdate([top_level_folder |-> "derivatives"],
                          get_tui_config_defaults),
               get_name_templates_defaults)

get_persistent_settings_defaults ==
    DictUpdate(DictUpdate([top_level_folder |-> "rawdata"],
                          get_tui_config_defaults),
               get_name_templates_defaults)

\* the settings file is not on disk
NoFile == [is_file |-> FALSE]

\* the settings file with the settings saved in it
save_persistent_settings(settings) == [is_file |-> TRUE, settings |-> settings]

\* the file after the settings were asked for: it is written with the
\* defaults first when it is not on disk
init_persistent_settings(file) ==
    IF file.is_file THEN file
    ELSE save_persistent_settings(get_persistent_settings_defaults)

\* the settings read from the file
load_persistent_settings(file) == init_persistent_settings(file).settings

\* load, set one key, save
update_persistent_setting(file, setting_name, setting_value) ==
    save_persistent_settings(
        [load_persistent_settings(file) EXCEPT ![setting_name] = setting_value])

\* an instance not opened yet
Closed == [open |-> FALSE, top_level_folder |-> "rawdata"]

\* the attributes of an instance just opened on the file
OpenedOn(file) ==
    [open |-> TRUE,
     top_level_folder |-> load_persistent_settings(file).top_level_folder]

(***************************************************************************)
(* The terminal user interface.  `tui` holds the widgets of the project    *)
(* manager screen: the datatype checkboxes of the two tabs and the sub and *)
(* ses inputs of a tab.                                                    *)
(***************************************************************************)
\* the tabs with datatype checkboxes
Tabs == {"create", "transfer"}

\* a DatatypeCheckboxes widget that was not constructed
NoWidget == [mounted |-> FALSE]

\* the screen before any widget is constructed: the sub and ses inputs
\* are empty; `calls` lists the calls that wrote to the inputs since.
\* `screen` is the project manager screen: the messages posted to it and
\* not handled yet, where its message handler stands ("idle" between two
\* messages), and its watchdog observer.
TuiInit ==
    [checkboxes |-> [tab \in Tabs |-> NoWidget],
     input |-> [sub |-> <<>>, ses |-> <<>>],
     calls |-> <<>>,
     screen |-> [dismissed |-> FALSE, messages |-> <<>>, posted |-> 0,
                 handler |-> "idle", observer |-> "none"]]

(***************************************************************************)
(* The state machine.                                                      *)
(***************************************************************************)
Idle == [op |-> "none"]

\* the project was made and is open in one instance
Init ==
    /\ local = EmptyTree
    /\ central = EmptyTree
    /\ out = Idle
    /\ persistent_settings = init_persistent_settings(NoFile)
    /\ cfg = [i \in Instances |->
                 IF i = 1 THEN OpenedOn(NoFile) ELSE Closed]
    /\ tui = TuiInit

Room == NFolders(local) + NFolders(central) < MaxFolders

\* os.makedirs of a subject or session folder in either location
Makedirs ==
    /\ out = Idle
    /\ Room
    /\ \E sub \in Names :
         \/ /\ sub \notin DOMAIN local
            /\ local' = AddSub(local, sub)
            /\ UNCHANGED central
         \/ /\ sub \notin DOMAIN central
            /\ central' = AddSub(central, sub)
            /\ UNCHANGED local
         \/ \E ses \in Names :
              \/ /\ sub \in DOMAIN local
                 /\ ses \notin local[sub]
                 /\ local' = AddSes(local, sub, ses)
                 /\ UNCHANGED central
              \/ /\ sub \in DOMAIN central
                 /\ ses \notin central[sub]
                 /\ central' = AddSes(central, sub, ses)
                 /\ UNCHANGED local
    /\ UNCHANGED <<out, persistent_settings, cfg, tui>>

\* shutil.rmtree of a subject or session folder in either location
Rmtree ==
    /\ out = Idle
    /\ \/ \E sub \in DOMAIN local :
            /\ local' = RmSub(local, sub)
            /\ UNCHANGED central
       \/ \E sub \in DOMAIN central :
            /\ central' = RmSub(central, sub)
            /\ UNCHANGED local
       \/ \E sub \in DOMAIN local : \E ses \in local[sub] :
            /\ local' = RmSes(local, sub, ses)
            /\ UNCHANGED central
       \/ \E sub \in DOMAIN central : \E ses \in central[sub] :
            /\ central' = RmSes(central, sub, ses)
            /\ UNCHANGED local
    /\ UNCHANGED <<out, persistent_settings, cfg, tui>>

\* project.get_next_sub_number / project.get_next_ses_number
GetNext ==
    /\ out = Idle
    /\ \E sub \in {NoSub} \cup DOMAIN local \cup DOMAIN central,
          local_only \in BOOLEAN, return_with_prefix \in BOOLEAN,
          d \in DefaultDigits, rev \in BOOLEAN :
         out' = [op |-> "get_next", sub |-> sub, local_only |-> local_only,
                 return_with_prefix |-> return_with_prefix, d |-> d,
                 res |-> get_next_sub_or_ses_number(
                             local, central, sub, local_only,
                             return_with_prefix, d, rev)]
    /\ UNCHANGED <<local, central, persistent_settings, cfg, tui>>

\* getters.get_all_sub_and_ses_names
GetAllSubAndSesNames ==
    /\ out = Idle
    /\ \E local_only \in BOOLEAN, rev \in BOOLEAN :
         out' = [op |-> "get_all_names", local_only |-> local_only,
                 res |-> get_all_sub_and_ses_names(local, central,
                                                   local_only, rev)]
    /\ UNCHANGED <<local, central, persistent_settings, cfg, tui>>

\* the lists of names a request passes
SubBatches == DistinctBatches(Names, MaxBatch) \ {<<>>}

SesBatches == DistinctBatches(Names, MaxBatch)

Modes == {"error", "warn"}

\* validation.validate_names_against_project
ValidateNames ==
    /\ out = Idle
    /\ \E sub_names \in SubBatches, ses_names \in SesBatches,
          local_only \in BOOLEAN, error_or_warn \in Modes, rev \in BOOLEAN :
         out' = [op |-> "validate_names", sub_names |-> sub_names,
                 ses_names |-> ses_names, local_only |-> local_only,
                 error_or_warn |-> error_or_warn,
                 res |-> validate_names_against_project(
                             local, central, sub_names, ses_names,
                             local_only, error_or_warn, rev)]
    /\ UNCHANGED <<local, central, persistent_settings, cfg, tui>>

\* project.validate_project
ValidateProject ==
    /\ out = Idle
    /\ \E local_only \in BOOLEAN, error_or_warn \in Modes, rev \in BOOLEAN :
         out' = [op |-> "validate_project", local_only |-> local_only,
                 error_or_warn |-> error_or_warn,
                 res |-> validate_project(local, central, local_only,
                                          error_or_warn, rev)]
    /\ UNCHANGED <<local, central, persistent_settings, cfg, tui>>

\* project.make_folders(sub_names, ses_names)
MakeFolders ==
    /\ out = Idle
    /\ \E sub_names \in SubBatches, ses_names \in SesBatches, rev \in BOOLEAN :
         LET made == make_folders(local, central, sub_names, ses_names, rev)
         IN  /\ NFolders(made.local) + NFolders(central) <= MaxFolders
             /\ local' = made.local
             /\ out' = [op |-> "make_folders", sub_names |-> sub_names,
                        ses_names |-> ses_names, raised |-> made.raised,
                        error |-> made.error]
    /\ UNCHANGED <<central, persistent_settings, cfg, tui>>

\* the caller takes the result of the call
Return ==
    /\ out # Idle
    /\ out' = Idle
    /\ UNCHANGED <<local, central, persistent_settings, cfg, tui>>

Next ==
    \/ Makedirs
    \/ Rmtree
    \/ MakeFolders
    \/ GetNext
    \/ GetAllSubAndSesNames
    \/ ValidateNames
    \/ ValidateProject
    \/ Return

Spec == Init /\ [][Next]_vars

(***************************************************************************)
(* What the properties speak about.                                        *)
(***************************************************************************)
\* default_num_value_digits when the caller passes none
DefaultNumValueDigits == 3

\* the names a search at the level of `sub` finds
Searched(sub, local_only) ==
    LevelNames(local, sub)
    \cup (IF local_only THEN {} ELSE LevelNames(central, sub))

WidthsOf(S) == {Len(n.val) : n \in S}

ValuesOf(S) == {sub_or_ses_value_to_int(n.val) : n \in S}

MaxOf(I) == CHOOSE x \in I : \A y \in I : y <= x

MinOf(I) == CHOOSE x \in I : \A y \in I : x <= y

RECURSIVE Pow10(_)
Pow10(k) == IF k = 0 THEN 1 ELSE 10 * Pow10(k - 1)

\* the values of the names of S, one per name, are consecutive integers
ConsecutiveNames(S) ==
    /\ Cardinality(ValuesOf(S)) = Cardinality(S)
    /\ ValuesOf(S) = MinOf(ValuesOf(S)) .. MaxOf(ValuesOf(S))

IsGetNext == out.op = "get_next"

PrefixAsked ==
    IF out.return_with_prefix
    THEN (IF out.sub = NoSub THEN "sub" ELSE "ses")
    ELSE ""

\* the tree without the folder n at the level of `sub`
Without(tree, sub, n) ==
    IF sub = NoSub THEN RmSub(tree, n) ELSE RmSes(tree, sub, n)

C2_DefaultWidthOnlyWhenEmpty ==
    IsGetNext =>
        LET S == Searched(out.sub, out.local_only)
        IN  /\ S = {} =>
                /\ ~out.res.err
                /\ out.res.digits = [i \in 1 .. out.d |->
                                        IF i = out.d THEN 1 ELSE 0]
                /\ out.res.prefix = PrefixAsked
            /\ S # {} =>
                \A d \in DefaultDigits, rev \in BOOLEAN :
                    get_next_sub_or_ses_number(
                        local, central, out.sub, out.local_only,
                        out.return_with_prefix, d, rev) = out.res

\* "ses-001" was suggested for a subject that has no session
C2_Witness ==
    /\ IsGetNext
    /\ out.sub # NoSub
    /\ out.d = DefaultNumValueDigits
    /\ Searched(out.sub, out.local_only) = {}
    /\ out.res.prefix = "ses"
    /\ out.res.digits = <<0, 0, 1>>

(***************************************************************************)
(* C5.                                                                     *)
(***************************************************************************)
\* C5: whatever folders were made and removed before, a suggestion is fixed
\* by the names in local and central at the time of the call (local alone
\* when local_only): it fails iff their digit counts differ, else it is
\* max + 1 (1 when there is none), with a gap warning iff the values of
\* those names, each name counted once, are not consecutive; and it is the
\* same with a name that is in both locations removed from one of them.
C5_FromCurrentUnion ==
    IsGetNext =>
        LET S == Searched(out.sub, out.local_only)
            both == LevelNames(local, out.sub) \cap LevelNames(central, out.sub)
        IN  /\ out.res.err <=> Cardinality(WidthsOf(S)) > 1
            /\ ~out.res.err =>
                /\ sub_or_ses_value_to_int(out.res.digits)
                       = IF S = {} THEN 1 ELSE MaxOf(ValuesOf(S)) + 1
                /\ out.res.warned <=> (S # {} /\ ~ConsecutiveNames(S))
            /\ ~out.local_only =>
                \A n \in both, rev \in BOOLEAN :
                    /\ get_next_sub_or_ses_number(
                           Without(local, out.sub, n), central, out.sub,
                           FALSE, out.return_with_prefix, out.d, rev) = out.res
                    /\ get_next_sub_or_ses_number(
                           local, Without(central, out.sub, n), out.sub,
                           FALSE, out.return_with_prefix, out.d, rev) = out.res

\* a suggestion over both locations while a name is in both of them
C5_Witness ==
    /\ IsGetNext
    /\ ~out.local_only
    /\ LevelNames(local, out.sub) \cap LevelNames(central, out.sub) # {}
    /\ ~out.res.err
    /\ ~out.res.warned

(***************************************************************************)
(* What the validation properties speak about.                             *)
(***************************************************************************)
\* the subject names a validation scans
ScannedSubs(local_only) ==
    DOMAIN local \cup (IF local_only THEN {} ELSE DOMAIN central)

\* the session names a validation scans under a subject
ScannedSes(sub, local_only) ==
    SesOf(local, sub) \cup (IF local_only THEN {} ELSE SesOf(central, sub))

\* every session name a validation scans
AllScannedSes(local_only) ==
    UNION {ScannedSes(sub, local_only) : sub \in ScannedSubs(local_only)}

\* same sub / ses id, different folder name
Clash(a, b) ==
    /\ sub_or_ses_value_to_int(a.val) = sub_or_ses_value_to_int(b.val)
    /\ a # b

\* the value digit counts of the names are not all equal
Uneven(S) == Cardinality(WidthsOf(S)) > 1

ClashIssues(prefix, new_names, existing, under) ==
    {DupIssue(prefix, p[1], p[2], under) :
        p \in {q \in new_names \X (existing \cup new_names) : Clash(q[1], q[2])}}

PadIssues(prefix, S, under) ==
    IF Uneven(S) THEN {PadIssue(prefix, under)} ELSE {}

\* the issues of the subject level of a request
SubIssues(sub_names, local_only) ==
    PadIssues("sub", Range(sub_names) \cup ScannedSubs(local_only), NoSub)
    \cup ClashIssues("sub", Range(sub_names), ScannedSubs(local_only), NoSub)

\* the issues of the sessions of a request under one of its subjects
SesIssues(sub, ses_names, local_only) ==
    IF ses_names = <<>> THEN {}
    ELSE PadIssues("ses", Range(ses_names) \cup ScannedSes(sub, local_only), sub)
         \cup ClashIssues("ses", Range(ses_names),
                          ScannedSes(sub, local_only), sub)

\* the issues of a request against the project
NamesIssues(sub_names, ses_names, local_only) ==
    SubIssues(sub_names, local_only)
    \cup UNION {SesIssues(sub_names[i], ses_names, local_only) :
                   i \in DOMAIN sub_names}

\* the issues of the project alone
ProjectIssues(local_only) ==
    PadIssues("sub", ScannedSubs(local_only), NoSub)
    \cup ClashIssues("sub", ScannedSubs(local_only), {}, NoSub)
    \cup PadIssues("ses", AllScannedSes(local_only), NoSub)
    \cup UNION {ClashIssues("ses", ScannedSes(sub, local_only), {}, sub) :
                   sub \in ScannedSubs(local_only)}

IsValidateNames == out.op = "validate_names"

IsValidateProject == out.op = "validate_project"

Reported == Range(out.res.error) \cup Range(out.res.warnings)

\* the first position of a list that holds a name of S (0 when none does)
FirstIndex(names, S) ==
    IF \E i \in DOMAIN names : names[i] \in S
    THEN CHOOSE i \in DOMAIN names :
             names[i] \in S /\ \A j \in 1 .. i - 1 : names[j] \notin S
    ELSE 0

(***************************************************************************)
(* C7.                                                                     *)
(***************************************************************************)
\* C7: in warn mode a validation never raises, and the warnings it emits
\* are all the duplicate-id and padding issues of the scan (subjects and
\* sessions, local and central), not only the first.
C7_WarnReportsAll ==
    /\ (IsValidateNames /\ out.error_or_warn = "warn") =>
           /\ ~out.res.raised
           /\ out.res.error = <<>>
           /\ Range(out.res.warnings)
                  = NamesIssues(out.sub_names, out.ses_names, out.local_only)
    /\ (IsValidateProject /\ out.error_or_warn = "warn") =>
           /\ ~out.res.raised
           /\ out.res.error = <<>>
           /\ Range(out.res.warnings) = ProjectIssues(out.local_only)

\* a warn-mode validation of a request that returned with a padding warning
\* and duplicate-id warnings against a local and against a central folder
C7_Witness ==
    /\ IsValidateNames
    /\ out.error_or_warn = "warn"
    /\ ~out.res.raised
    /\ \E i, j, k \in DOMAIN out.res.warnings :
         /\ i < j /\ j < k
         /\ out.res.warnings[i].kind = "pad"
         /\ out.res.warnings[j].kind = "dup"
         /\ out.res.warnings[j].exist \in DOMAIN local
         /\ out.res.warnings[k].kind = "dup"
         /\ out.res.warnings[k].exist \in DOMAIN central \ DOMAIN local

(***************************************************************************)
(* C3.                                                                     *)
(***************************************************************************)
\* a requested subject has the id of another requested or scanned subject
\* under a different name
SubClash(sub_names, local_only) ==
    \E c \in Range(sub_names) :
        \E e \in ScannedSubs(local_only) \cup Range(sub_names) : Clash(c, e)

\* a requested session has, under a requested subject, the id of another
\* requested or scanned session under a different name
SesClash(sub_names, ses_names, local_only) ==
    \E sub \in Range(sub_names) : \E c \in Range(ses_names) :
        \E e \in ScannedSes(sub, local_only) \cup Range(ses_names) : Clash(c, e)

IsErrorModeNames == IsValidateNames /\ out.error_or_warn = "error"

IsErrorMode ==
    (IsValidateNames \/ IsValidateProject) /\ out.error_or_warn = "error"

\* the issues of the scan a returned validation made
IssuesOfCall ==
    IF IsValidateNames
    THEN NamesIssues(out.sub_names, out.ses_names, out.local_only)
    ELSE ProjectIssues(out.local_only)

\* C8 as stated: in error mode, when the scanned names hold both a
\* duplicate-id issue and a padding issue, the error raised is the
\* duplicate-id one.
C8_DuplicateBeforePadding ==
    (/\ IsErrorMode
     /\ \E a, b \in IssuesOfCall : a.kind = "dup" /\ b.kind = "pad")
        => /\ out.res.raised
           /\ out.res.error[1].kind = "dup"

\* the error a duplicate check of `names` against `first` then `second`
\* must raise: the first clashing name of the list, against a name of
\* `first` when one clashes
FirstDup(err, prefix, names, first, second, under) ==
    LET clashing ==
            {c \in Range(names) :
                \E e \in first \cup second \cup Range(names) : Clash(c, e)}
        new == names[FirstIndex(names, clashing)]
    IN  /\ err.kind = "dup" /\ err.prefix = prefix /\ err.under = under
        /\ err.new = new
        /\ Clash(new, err.exist)
        /\ (\E e \in first : Clash(new, e)) => err.exist \in first
        /\ (/\ ~\E e \in first : Clash(new, e)
            /\ \E e \in second : Clash(new, e)) => err.exist \in second

\* C8, amended: in error mode a validation raises exactly when the scan has
\* an issue, and the one error raised is the first in the order: subjects
\* before sessions; at each level inconsistent value lengths before
\* duplicate ids; duplicates in the order of the request, each against the
\* local folders before the central ones.
C8_FirstIssueInScanOrder ==
    /\ IsErrorMode =>
           /\ out.res.raised <=> IssuesOfCall # {}
           /\ out.res.warnings = <<>>
           /\ Len(out.res.error) = IF out.res.raised THEN 1 ELSE 0
    /\ (IsErrorModeNames /\ out.res.raised) =>
           LET err == out.res.error[1]
               lo == out.local_only
               cen(S) == IF lo THEN {} ELSE S
               has_issue ==
                   {n \in Range(out.sub_names) :
                       SesIssues(n, out.ses_names, lo) # {}}
               sub == out.sub_names[FirstIndex(out.sub_names, has_issue)]
           IN  IF Uneven(Range(out.sub_names) \cup ScannedSubs(lo))
               THEN err = PadIssue("sub", NoSub)
               ELSE IF SubClash(out.sub_names, lo)
               THEN FirstDup(err, "sub", out.sub_names, DOMAIN local,
                             cen(DOMAIN central), NoSub)
               ELSE IF Uneven(Range(out.ses_names) \cup ScannedSes(sub, lo))
               THEN err = PadIssue("ses", sub)
               ELSE FirstDup(err, "ses", out.ses_names, SesOf(local, sub),
                             cen(SesOf(central, sub)), sub)
    /\ (IsValidateProject /\ out.error_or_warn = "error" /\ out.res.raised) =>
           LET err == out.res.error[1]
               lo == out.local_only
               clashing(S) == {c \in S : \E e \in S : Clash(c, e)}
           IN  IF Uneven(ScannedSubs(lo))
               THEN err = PadIssue("sub", NoSub)
               ELSE IF clashing(ScannedSubs(lo)) # {}
               THEN /\ err.kind = "dup" /\ err.prefix = "sub"
                    /\ Clash(err.new, err.exist)
                    /\ {err.new, err.exist} \subseteq ScannedSubs(lo)
                    /\ clashing(ScannedSubs(lo)) \cap DOMAIN local # {}
                           => err.new \in DOMAIN local
               ELSE IF Uneven(AllScannedSes(lo))
               THEN err = PadIssue("ses", NoSub)
               ELSE /\ err.kind = "dup" /\ err.prefix = "ses"
                    /\ err.under \in ScannedSubs(lo)
                    /\ Clash(err.new, err.exist)
                    /\ {err.new, err.exist} \subseteq ScannedSes(err.under, lo)

\* an error-mode validation of a candidate subject that has the id of a
\* local subject written with another number of digits: both issues are
\* there, and the value length error is the one raised
C8_Witness ==
    /\ IsErrorModeNames
    /\ out.res.raised
    /\ out.res.error[1] = PadIssue("sub", NoSub)
    /\ \E c \in Range(out.sub_names) : \E e \in DOMAIN local :
           /\ Clash(c, e)
           /\ Len(c.val) # Len(e.val)

(***************************************************************************)
(* C4.                                                                     *)
(***************************************************************************)
\* the scan of a returned validation went on to the point where `reached`
\* holds: always in warn mode, and in error mode when nothing was raised
\* before that point
GoesOnTo(reached) == out.error_or_warn = "warn" \/ reached

\* C4: validation reports inconsistent value lengths for a prefix exactly
\* when the value digit strings of the existing names plus the candidate
\* names of a level do not all have the same number of digits, whichever of
\* local or central storage holds each name.  The subject level is the
\* first thing scanned; a session level is reported on when the scan gets
\* to it.
C4_PaddingReportedIffUneven ==
    /\ IsValidateNames =>
           LET lo == out.local_only
               sub_level == Range(out.sub_names) \cup ScannedSubs(lo)
               ses_level(sub) == Range(out.ses_names) \cup ScannedSes(sub, lo)
               nothing_before(i) ==
                   /\ SubIssues(out.sub_names, lo) = {}
                   /\ \A j \in 1 .. i - 1 :
                          SesIssues(out.sub_names[j], out.ses_names, lo) = {}
           IN  /\ PadIssue("sub", NoSub) \in Reported <=> Uneven(sub_level)
               /\ \A i \in DOMAIN out.sub_names :
                      LET sub == out.sub_names[i]
                      IN  /\ PadIssue("ses", sub) \in Reported
                                 => out.ses_names # <<>> /\ Uneven(ses_level(sub))
                          /\ (/\ out.ses_names # <<>>
                              /\ Uneven(ses_level(sub))
                              /\ GoesOnTo(nothing_before(i)))
                                 => PadIssue("ses", sub) \in Reported
    /\ IsValidateProject =>
           LET lo == out.local_only
               no_sub_issue ==
                   /\ ~Uneven(ScannedSubs(lo))
                   /\ ~\E a, b \in ScannedSubs(lo) : Clash(a, b)
           IN  /\ PadIssue("sub", NoSub) \in Reported
                      <=> Uneven(ScannedSubs(lo))
               /\ PadIssue("ses", NoSub) \in Reported
                      => Uneven(AllScannedSes(lo))
               /\ (Uneven(AllScannedSes(lo)) /\ GoesOnTo(no_sub_issue))
                      => PadIssue("ses", NoSub) \in Reported
    /\ (IsValidateNames \/ IsValidateProject) =>
           \A r \in Reported : r.kind = "pad" =>
               \/ r = PadIssue("sub", NoSub)
               \/ r.prefix = "ses" /\ IsValidateProject /\ r.under = NoSub
               \/ r.prefix = "ses" /\ IsValidateNames
                     /\ r.under \in Range(out.sub_names)

\* a validation that reported inconsistent subject value lengths where the
\* local names and the candidates all have one digit count and only a
\* central folder has another
C4_Witness ==
    /\ IsValidateNames
    /\ ~out.local_only
    /\ PadIssue("sub", NoSub) \in Reported
    /\ DOMAIN local # {}
    /\ ~Uneven(Range(out.sub_names) \cup DOMAIN local)
    /\ Uneven(Range(out.sub_names) \cup DOMAIN central)

(***************************************************************************)
(* C6.                                                                     *)
(***************************************************************************)
IsGetAllNames == out.op = "get_all_names"

\* a candidate subject of the returned validation has the id of a folder
\* that only central storage holds, under a different name
CentralOnlyClash ==
    \E c \in Range(out.sub_names) :
        \E e \in DOMAIN central \ (DOMAIN local \cup Range(out.sub_names)) :
            Clash(c, e)

\* C6: with local_only true, the names get_all_sub_and_ses_names returns and
\* the names a validation compares with are those of local storage only, so
\* a conflict that exists only against a central folder is never reported;
\* with local_only false the central names are there too and the same
\* conflict is reported.
C6_LocalOnlyScansLocal ==
    /\ IsGetAllNames =>
           LET tree_ses(sub) ==
                   SesOf(local, sub)
                   \cup (IF out.local_only THEN {} ELSE SesOf(central, sub))
           IN  /\ Range(out.res.sub) =
                      DOMAIN local
                      \cup (IF out.local_only THEN {} ELSE DOMAIN central)
               /\ DOMAIN out.res.ses = Range(out.res.sub)
               /\ \A sub \in DOMAIN out.res.ses :
                      Range(out.res.ses[sub]) = tree_ses(sub)
    /\ (IsValidateNames /\ out.local_only) =>
           /\ \A r \in Reported :
                  /\ (r.kind = "dup" /\ r.prefix = "sub") =>
                         r.exist \in DOMAIN local \cup Range(out.sub_names)
                  /\ (r.kind = "dup" /\ r.prefix = "ses") =>
                         r.exist \in SesOf(local, r.under)
                                         \cup Range(out.ses_names)
                  /\ (r.kind = "pad" /\ r.prefix = "sub") =>
                         Uneven(DOMAIN local \cup Range(out.sub_names))
                  /\ (r.kind = "pad" /\ r.prefix = "ses") =>
                         Uneven(SesOf(local, r.under) \cup Range(out.ses_names))
           /\ (/\ ~Uneven(DOMAIN local \cup Range(out.sub_names))
               /\ ~\E c \in Range(out.sub_names) :
                      \E e \in DOMAIN local \cup Range(out.sub_names) :
                          Clash(c, e)
               /\ out.ses_names = <<>>)
                  => Reported = {}
    /\ (IsValidateProject /\ out.local_only) =>
           /\ \A r \in Reported :
                  /\ (r.kind = "dup" /\ r.prefix = "sub") =>
                         {r.new, r.exist} \subseteq DOMAIN local
                  /\ (r.kind = "dup" /\ r.prefix = "ses") =>
                         {r.new, r.exist} \subseteq SesOf(local, r.under)
                  /\ (r.kind = "pad" /\ r.prefix = "sub") =>
                         Uneven(DOMAIN local)
                  /\ (r.kind = "pad" /\ r.prefix = "ses") =>
                         Uneven(UNION {SesOf(local, sub) : sub \in DOMAIN local})
    /\ (IsValidateNames /\ ~out.local_only /\ CentralOnlyClash) =>
           /\ Reported # {}
           /\ out.error_or_warn = "warn" =>
                  \E r \in Reported :
                      /\ r.kind = "dup" /\ r.prefix = "sub"
                      /\ r.new \in Range(out.sub_names)
                      /\ r.exist \in DOMAIN central \ DOMAIN local
                      /\ Clash(r.new, r.exist)

\* a local_only validation that returned without any issue for a candidate
\* subject that has the id of a folder only central storage holds
C6_Witness ==
    /\ IsValidateNames
    /\ out.local_only
    /\ CentralOnlyClash
    /\ DOMAIN local # {}
    /\ Reported = {}

(***************************************************************************)
(* C9.                                                                     *)
(***************************************************************************)
IsMakeFolders == out.op = "make_folders"

\* C9: a make_folders request is all-or-nothing: if any subject or session
\* name of the request fails validation against the local project the call
\* raises, and a call that raises leaves the folders exactly as they were
\* (no folder of the batch is made, the valid names listed before the
\* failing one included); a call that returns has made every folder asked.
C9_AllOrNothing ==
    [][(out.op = "none" /\ out'.op = "make_folders") =>
           /\ NamesIssues(out'.sub_names, out'.ses_names, TRUE) # {}
                  <=> out'.raised
           /\ out'.raised => (local' = local /\ central' = central)
           /\ ~out'.raised =>
                  /\ central' = central
                  /\ DOMAIN local' = DOMAIN local \cup Range(out'.sub_names)
                  /\ \A sub \in DOMAIN local' :
                         local'[sub] =
                             SesOf(local, sub)
                             \cup (IF sub \in Range(out'.sub_names)
                                   THEN Range(out'.ses_names) ELSE {})]_vars

\* a make_folders call of two subjects that raised, where the subject
\* listed first is not in the local project and would have passed alone
C9_Witness ==
    /\ IsMakeFolders
    /\ out.raised
    /\ Len(out.sub_names) = 2
    /\ out.sub_names[1] \notin DOMAIN local
    /\ NamesIssues(<<out.sub_names[1]>>, out.ses_names, TRUE) = {}
    /\ DOMAIN local # {}

(***************************************************************************)
(* C10.                                                                    *)
(***************************************************************************)
\* C10: session duplicate-id detection is scoped per subject: a candidate
\* session conflicts only with the sessions (local or central) of the
\* subject it is made under, or with another candidate session; the same
\* session id under a different name in another subject is no conflict,
\* and in a request of several subjects only the subjects that hold the
\* conflicting session trigger the issue.
C10_SessionsScopedPerSubject ==
    /\ IsValidateNames =>
           LET lo == out.local_only
               ses_dups == {r \in Reported : r.kind = "dup" /\ r.prefix = "ses"}
           IN  /\ \A r \in ses_dups :
                      /\ r.under \in Range(out.sub_names)
                      /\ r.new \in Range(out.ses_names)
                      /\ r.exist \in ScannedSes(r.under, lo)
                                         \cup Range(out.ses_names)
                      /\ Clash(r.new, r.exist)
               /\ out.error_or_warn = "warn" =>
                      \A sub \in Range(out.sub_names) :
                          \A c \in Range(out.ses_names) :
                              \A e \in Names \ Range(out.ses_names) :
                                  DupIssue("ses", c, e, sub) \in Reported
                                      <=> (e \in ScannedSes(sub, lo)
                                           /\ Clash(c, e))
               /\ (/\ SubIssues(out.sub_names, lo) = {}
                   /\ \A sub \in Range(out.sub_names) :
                          SesIssues(sub, out.ses_names, lo) = {})
                      => Reported = {}
    /\ IsValidateProject =>
           \A r \in Reported :
               (r.kind = "dup" /\ r.prefix = "ses") =>
                   /\ r.under \in ScannedSubs(out.local_only)
                   /\ {r.new, r.exist}
                          \subseteq ScannedSes(r.under, out.local_only)
                   /\ Clash(r.new, r.exist)

\* a warn-mode validation of a session for two subjects, of which one holds
\* a session of the same id under another name: the duplicate is reported
\* under that subject and nothing is reported under the other
C10_Witness ==
    /\ IsValidateNames
    /\ out.error_or_warn = "warn"
    /\ Len(out.sub_names) = 2
    /\ Len(out.ses_names) = 1
    /\ \E i, j \in DOMAIN out.sub_names :
         /\ i # j
         /\ \E e \in ScannedSes(out.sub_names[i], out.local_only) :
                /\ Clash(out.ses_names[1], e)
                /\ DupIssue("ses", out.ses_names[1], e, out.sub_names[i])
                       \in Reported
         /\ \A r \in Reported : r.under = out.sub_names[i]

(***************************************************************************)
(* The session value lengths of a whole project: a second specification    *)
(* with fewer names and room for sessions under two subjects in either     *)
(* location (test_warn_on_inconsistent_ses_value_lengths).                 *)
(***************************************************************************)
\* folders (subjects plus sessions) of local and central together
MaxProjectFolders == 4

\* sub-09, sub-08, sub-7
ProjectSubs == {Name(<<0, 9>>, 0), Name(<<0, 8>>, 0), Name(<<7>>, 0)}

\* ses-9, ses-09
ProjectSes == {Name(<<9>>, 0), Name(<<0, 9>>, 0)}

\* os.makedirs(<location> / "rawdata" / sub / ses): the session folder is
\* made together with its subject folder when that does not exist
MakedirsSesPath ==
    /\ out = Idle
    /\ \E sub \in ProjectSubs, ses \in ProjectSes :
         \/ /\ ses \notin SesOf(local, sub)
            /\ local' = AddSes(AddSub(local, sub), sub, ses)
            /\ NFolders(local') + NFolders(central) <= MaxProjectFolders
            /\ UNCHANGED central
         \/ /\ ses \notin SesOf(central, sub)
            /\ central' = AddSes(AddSub(central, sub), sub, ses)
            /\ NFolders(local) + NFolders(central') <= MaxProjectFolders
            /\ UNCHANGED local
    /\ UNCHANGED <<out, persistent_settings, cfg, tui>>

\* validation.validate_names_against_project for one list of subjects and
\* at most one session name
ValidateNamesOneSes ==
    /\ out = Idle
    /\ \E sub_names \in DistinctBatches(ProjectSubs, MaxBatch) \ {<<>>},
          ses_names \in DistinctBatches(ProjectSes, 1),
          local_only \in BOOLEAN, error_or_warn \in Modes, rev \in BOOLEAN :
         out' = [op |-> "validate_names", sub_names |-> sub_names,
                 ses_names |-> ses_names, local_only |-> local_only,
                 error_or_warn |-> error_or_warn,
                 res |-> validate_names_against_project(
                             local, central, sub_names, ses_names,
                             local_only, error_or_warn, rev)]
    /\ UNCHANGED <<local, central, persistent_settings, cfg, tui>>

NextProject ==
    \/ MakedirsSesPath
    \/ Rmtree
    \/ ValidateNamesOneSes
    \/ ValidateProject
    \/ Return

SpecProject == Init /\ [][NextProject]_vars

(***************************************************************************)
(* C11.                                                                    *)
(***************************************************************************)
\* C11 as stated: the value lengths are compared over all subjects, but for
\* sessions only within one subject: an inconsistent session value length
\* is only ever reported when the sessions of one subject (with the
\* candidates made under it) differ in digit count.
C11_SessionLengthsPerSubject ==
    /\ IsValidateNames =>
           \A r \in Reported :
               (r.kind = "pad" /\ r.prefix = "ses") =>
                   Uneven(Range(out.ses_names)
                          \cup ScannedSes(r.under, out.local_only))
    /\ (IsValidateProject /\ PadIssue("ses", NoSub) \in Reported) =>
           \E sub \in ScannedSubs(out.local_only) :
               Uneven(ScannedSes(sub, out.local_only))

\* C11, amended: the validation of candidate names compares the value
\* lengths over all subjects, but for sessions only within each subject a
\* candidate session is made under: sessions of other subjects with another
\* digit count produce no issue.  The validation of the whole project
\* compares the session value lengths over all subjects of the project.
C11_PerSubjectForCandidatesOnly ==
    /\ IsValidateNames =>
           /\ PadIssue("sub", NoSub) \in Reported
                  <=> Uneven(Range(out.sub_names)
                             \cup ScannedSubs(out.local_only))
           /\ \A r \in Reported :
                  (r.kind = "pad" /\ r.prefix = "ses") =>
                      /\ r.under \in Range(out.sub_names)
                      /\ Uneven(Range(out.ses_names)
                                \cup ScannedSes(r.under, out.local_only))
    /\ (IsValidateProject /\ out.error_or_warn = "warn") =>
           (PadIssue("ses", NoSub) \in Reported
               <=> Uneven(AllScannedSes(out.local_only)))
    /\ (IsValidateProject /\ out.error_or_warn = "error") =>
           (PadIssue("ses", NoSub) \in Reported
               => Uneven(AllScannedSes(out.local_only)))

\* a validation of a candidate session under an existing subject that
\* reported no session value length issue while another subject of the
\* project holds a session of another digit count
C11_Witness ==
    /\ IsValidateNames
    /\ out.error_or_warn = "warn"
    /\ Len(out.ses_names) = 1
    /\ \E a \in Range(out.sub_names) \cap ScannedSubs(out.local_only) :
           ScannedSes(a, out.local_only) # {}
    /\ \E b \in ScannedSubs(out.local_only) \ Range(out.sub_names) :
           \E e \in ScannedSes(b, out.local_only) :
               Len(e.val) # Len(out.ses_names[1].val)
    /\ \A r \in Reported : ~(r.kind = "pad" /\ r.prefix = "ses")

(***************************************************************************)
(* C12.                                                                    *)
(***************************************************************************)
\* every session folder of the project, of any subject, local or central
AllSesFolders ==
    UNION {local[sub] : sub \in DOMAIN local}
    \cup UNION {central[sub] : sub \in DOMAIN central}

\* the position of an issue in a list of warnings (0 when not there)
IndexOf(issue, warnings) ==
    IF \E i \in DOMAIN warnings : warnings[i] = issue
    THEN CHOOSE i \in DOMAIN warnings :
             warnings[i] = issue /\ \A j \in 1 .. i - 1 : warnings[j] # issue
    ELSE 0

\* C12: validate_project in warn mode with local_only false emits the
\* "Inconsistent value lengths for the key ses" warning whenever two
\* session folders with different digit counts exist anywhere in the
\* project (under different subjects, local or central), and not otherwise;
\* when the subject value lengths are inconsistent too, both warnings are
\* emitted, the subject one first.
C12_ProjectSessionLengthWarning ==
    (IsValidateProject /\ out.error_or_warn = "warn" /\ ~out.local_only) =>
        LET w == out.res.warnings
            sub_pad == IndexOf(PadIssue("sub", NoSub), w)
            ses_pad == IndexOf(PadIssue("ses", NoSub), w)
            subs_differ ==
                \E a, b \in DOMAIN local \cup DOMAIN central :
                    Len(a.val) # Len(b.val)
            ses_differ == \E a, b \in AllSesFolders : Len(a.val) # Len(b.val)
        IN  /\ ~out.res.raised
            /\ ses_differ <=> ses_pad > 0
            /\ subs_differ <=> sub_pad > 0
            /\ subs_differ => sub_pad = 1
            /\ (subs_differ /\ ses_differ) => sub_pad < ses_pad
            /\ Cardinality({i \in DOMAIN w : w[i].kind = "pad"})
                   = (IF subs_differ THEN 1 ELSE 0)
                     + (IF ses_differ THEN 1 ELSE 0)

\* a warn-mode validation of a project with a local subject and a central
\* subject of different value lengths, each with one session, the sessions
\* of different value lengths too: it warned about sub first, then ses
C12_Witness ==
    /\ IsValidateProject
    /\ out.error_or_warn = "warn"
    /\ ~out.local_only
    /\ \E a \in DOMAIN local, b \in DOMAIN central :
         /\ a # b
         /\ Len(a.val) # Len(b.val)
         /\ \E x \in local[a], y \in central[b] : Len(x.val) # Len(y.val)
    /\ out.res.warnings = <<PadIssue("sub", NoSub), PadIssue("ses", NoSub)>>

(***************************************************************************)
(* Names as strings.  A string is the sequence of its characters; the      *)
(* third specification passes the names a user types, with or without the  *)
(* prefix, well-formed or not.                                             *)
(***************************************************************************)
\* names in one list passed to the prefixing of names
MaxRawBatch == 3

\* "sub-" and "ses-"
SubPrefix == <<"s", "u", "b", "-">>

SesPrefix == <<"s", "e", "s", "-">>

Prefixes == {SubPrefix, SesPrefix}

\* name[:n]
Take(name, n) == SubSeq(name, 1, IF n < Len(name) THEN n ELSE Len(name))

\* name[n:]
Drop(name, n) == SubSeq(name, n + 1, Len(name))

\* The names a user passes for subjects:
\* "00011", "sub-00002", "30303", "sub_100", "sub-100", "sub",
\* "sub-00002_id-a"
RawSubNames ==
    {<<"0", "0", "0", "1", "1">>,
     <<"s", "u", "b", "-", "0", "0", "0", "0", "2">>,
     <<"3", "0", "3", "0", "3">>,
     <<"s", "u", "b", "_", "1", "0", "0">>,
     <<"s", "u", "b", "-", "1", "0", "0">>,
     <<"s", "u", "b">>,
     <<"s", "u", "b", "-", "0", "0", "0", "0", "2", "_", "i", "d", "-", "a">>}

\* The names a user passes for sessions: "ses-00001", "50432", "ses_100"
RawSesNames ==
    {<<"s", "e", "s", "-", "0", "0", "0", "0", "1">>,
     <<"5", "0", "4", "3", "2">>,
     <<"s", "e", "s", "_", "1", "0", "0">>}

\* the start of the name is compared with the prefix less its hyphen
ensure_prefixes_hyphen_not_compared(names, prefix) ==
    LET n_chars == Len(prefix) - 1
    IN  [i \in DOMAIN names |->
            IF Take(names[i], n_chars) # Take(prefix, n_chars)
            THEN prefix \o names[i]
            ELSE names[i]]

\* every name gets the prefix
ensure_prefixes_always_prepended(names, prefix) ==
    [i \in DOMAIN names |-> prefix \o names[i]]

\* the name gets the prefix when it does not start with it
ensure_prefixes_on_list_of_names(names, prefix) ==
    LET n_chars == Len(prefix)
    IN  [i \in DOMAIN names |->
            IF Take(names[i], n_chars) # prefix
            THEN prefix \o names[i]
            ELSE names[i]]

\* a value that is not a str (an int) where a name is expected
NotAStr == <<"int">>

\* type(names): the types of the values passed as names
NamesTypes == {"str", "list", "tuple", "int"}

\* the type check at the top of process_names: names is neither a str nor
\* a list, or an element of it is not a str (each element of a str is one)
names_of_wrong_type(names, names_type) ==
    \/ names_type \notin {"str", "list"}
    \/ /\ names_type = "list"
       /\ \E i \in DOMAIN names : names[i] = NotAStr

\* the names are compared before they get the prefix
process_names_compared_as_passed(names, names_type, prefix) ==
    IF names_of_wrong_type(names, names_type)
    THEN [raised |-> TRUE, error |-> "type", names |-> <<>>]
    ELSE LET as_list == IF names_type = "str" THEN <<names>> ELSE names
             prefixed_names == ensure_prefixes_on_list_of_names(as_list, prefix)
         IN  IF Len(as_list) # Cardinality(Range(as_list))
             THEN [raised |-> TRUE, error |-> "duplicates", names |-> <<>>]
             ELSE [raised |-> FALSE, error |-> "none", names |-> prefixed_names]

\* process_names: the type of the names is checked, a single name is made
\* a list, the names get the prefix, and a list with two equal names
\* raises.
process_names(names, names_type, prefix) ==
    IF names_of_wrong_type(names, names_type)
    THEN [raised |-> TRUE, error |-> "type", names |-> <<>>]
    ELSE LET as_list == IF names_type = "str" THEN <<names>> ELSE names
             prefixed_names == ensure_prefixes_on_list_of_names(as_list, prefix)
         IN  IF Len(prefixed_names) # Cardinality(Range(prefixed_names))
             THEN [raised |-> TRUE, error |-> "duplicates", names |-> <<>>]
             ELSE [raised |-> FALSE, error |-> "none", names |-> prefixed_names]

(***************************************************************************)
(* From a prefixed name string to the name checked against the project.    *)
(***************************************************************************)
DigitChars == {"0", "1", "2", "3", "4", "5", "6", "7", "8", "9"}

DigitOf(c) ==
    CASE c = "0" -> 0 [] c = "1" -> 1 [] c = "2" -> 2 [] c = "3" -> 3
      [] c = "4" -> 4 [] c = "5" -> 5 [] c = "6" -> 6 [] c = "7" -> 7
      [] c = "8" -> 8 [] c = "9" -> 9

\* the first position of character c in a string (0 when not there)
Find(str, c) ==
    IF \E i \in DOMAIN str : str[i] = c
    THEN CHOOSE i \in DOMAIN str : str[i] = c /\ \A j \in 1 .. i - 1 : str[j] # c
    ELSE 0

\* the value of the prefix key of a prefixed name: what follows "sub-" /
\* "ses-" up to the next underscore or the end of the name
value_of_prefix_key(name, prefix) ==
    LET rest == Drop(name, Len(prefix))
        stop == Find(rest, "_")
    IN  IF stop = 0 THEN rest ELSE Take(rest, stop - 1)

\* what follows the value of the prefix key: "" or "_key-value..."
tail_of_name(name, prefix) ==
    Drop(name, Len(prefix) + Len(value_of_prefix_key(name, prefix)))

\* int(value) succeeds
is_integer_string(value) ==
    value # <<>> /\ \A i \in DOMAIN value : value[i] \in DigitChars

(***************************************************************************)
(* Tags: "@DATE@", "@TIME@" and "@DATETIME@" in a name passed stand for    *)
(* the date and time at which the folders are made.                        *)
(***************************************************************************)
\* tags("date"), tags("time"), tags("datetime")
tags(key) ==
    CASE key = "date" -> <<"@", "D", "A", "T", "E", "@">>
      [] key = "time" -> <<"@", "T", "I", "M", "E", "@">>
      [] key = "datetime" -> <<"@", "D", "A", "T", "E", "T", "I", "M", "E", "@">>

TagKeys == {"date", "time", "datetime"}

\* str.replace(old, new)
RECURSIVE str_replace(_, _, _)
str_replace(str, old, new) ==
    IF Len(str) < Len(old) THEN str
    ELSE IF Take(str, Len(old)) = old
    THEN new \o str_replace(Drop(str, Len(old)), old, new)
    ELSE <<Head(str)>> \o str_replace(Tail(str), old, new)

\* the clock: (date as YYYYMMDD, time as HHMMSS) at two moments,
\* 2023-11-01 12:00:00 and 2023-11-02 09:05:00
Clocks ==
    {[date |-> <<"2", "0", "2", "3", "1", "1", "0", "1">>,
      time |-> <<"1", "2", "0", "0", "0", "0">>],
     [date |-> <<"2", "0", "2", "3", "1", "1", "0", "2">>,
      time |-> <<"0", "9", "0", "5", "0", "0">>]}

\* only "@DATE@" is replaced
expand_date_tag_only(name, now) ==
    str_replace(name, tags("date"), <<"d", "a", "t", "e", "-">> \o now.date)

\* the name with "@DATE@" replaced by "date-YYYYMMDD", "@TIME@" by
\* "time-HHMMSS" and "@DATETIME@" by "datetime-YYYYMMDDTHHMMSS"
expand_tags(name, now) ==
    str_replace(
        str_replace(
            str_replace(name, tags("date"),
                        <<"d", "a", "t", "e", "-">> \o now.date),
            tags("time"), <<"t", "i", "m", "e", "-">> \o now.time),
        tags("datetime"),
        <<"d", "a", "t", "e", "t", "i", "m", "e", "-">> \o now.date
        \o <<"T">> \o now.time)

\* The session names passed with tags: "ses-001_@DATE@", "002_@DATE@",
\* "ses-001_@DATETIME@", "ses-003_@TIME@", "ses-004_@DATE@_@TIME@",
\* "ses-005"
TagSesNames ==
    {<<"s", "e", "s", "-", "0", "0", "1", "_">> \o tags("date"),
     <<"0", "0", "2", "_">> \o tags("date"),
     <<"s", "e", "s", "-", "0", "0", "1", "_">> \o tags("datetime"),
     <<"s", "e", "s", "-", "0", "0", "3", "_">> \o tags("time"),
     <<"s", "e", "s", "-", "0", "0", "4", "_">> \o tags("date") \o <<"_">>
         \o tags("time"),
     <<"s", "e", "s", "-", "0", "0", "5">>}

\* the subject names passed with them: "sub-001", "sub-002"
TagSubNames ==
    {<<"s", "u", "b", "-", "0", "0", "1">>,
     <<"s", "u", "b", "-", "0", "0", "2">>}

\* the elements of a set in a sequence
RECURSIVE SeqOfSet(_)
SeqOfSet(S) ==
    IF S = {} THEN <<>>
    ELSE LET x == CHOOSE x \in S : TRUE IN <<x>> \o SeqOfSet(S \ {x})

\* the tails of the session names passed with tags, as passed and with the
\* tags replaced
TagTails ==
    SeqOfSet({tail_of_name(
                  ensure_prefixes_on_list_of_names(<<name>>, SesPrefix)[1],
                  SesPrefix) :
                  name \in TagSesNames
                           \cup {expand_tags(n, now) :
                                    n \in TagSesNames, now \in Clocks}}
             \ {<<>>})

\* the tails of the names passed: "_id-a", "_id-ab_r-x", "_id-abC_r-x",
\* "_id-x", "_iD-x", and those of the names with tags
KnownTails ==
    << <<"_", "i", "d", "-", "a">>,
       <<"_", "i", "d", "-", "a", "b", "_", "r", "-", "x">>,
       <<"_", "i", "d", "-", "a", "b", "C", "_", "r", "-", "x">>,
       <<"_", "i", "d", "-", "x">>,
       <<"_", "i", "D", "-", "x">> >>
    \o TagTails

\* the name record of a prefixed name with an integer value
NameOfString(name, prefix) ==
    LET value == value_of_prefix_key(name, prefix)
        tail == tail_of_name(name, prefix)
    IN  Name([i \in DOMAIN value |-> DigitOf(value[i])],
             IF tail = <<>> THEN 0
             ELSE CHOOSE k \in DOMAIN KnownTails : KnownTails[k] = tail)

\* "Invalid character in subject or session value: {value}" for the first
\* name of the list whose prefix key value is not an integer
invalid_values(names, prefix) ==
    LET bad == {i \in DOMAIN names :
                   ~is_integer_string(value_of_prefix_key(names[i], prefix))}
    IN  IF bad = {} THEN <<>>
        ELSE <<value_of_prefix_key(
                   names[CHOOSE i \in bad : \A j \in bad : i <= j], prefix)>>

\* project.make_folders on the names as passed: the names are prefixed,
\* the values of the prefix keys are extracted and must be integers, the
\* names are validated against the local project, and only then the
\* folders are made.  `error` is "none", "not_unique", "invalid_character"
\* or "validation".
make_folders_from_strings(loc, cen, sub_names, ses_names, rev) ==
    LET subs == process_names(sub_names, "list", SubPrefix)
        sess == process_names(ses_names, "list", SesPrefix)
        invalid == IF subs.raised \/ sess.raised THEN <<>>
                   ELSE invalid_values(subs.names, SubPrefix)
                        \o invalid_values(sess.names, SesPrefix)
        unchanged(error, value) ==
            [raised |-> TRUE, error |-> error, value |-> value, local |-> loc,
             sub_names |-> subs.names, ses_names |-> sess.names]
    IN  IF subs.raised \/ sess.raised THEN unchanged("not_unique", <<>>)
        ELSE IF invalid # <<>> THEN unchanged("invalid_character", invalid[1])
        ELSE LET made ==
                     make_folders(
                         loc, cen,
                         [i \in DOMAIN subs.names |->
                             NameOfString(subs.names[i], SubPrefix)],
                         [i \in DOMAIN sess.names |->
                             NameOfString(sess.names[i], SesPrefix)],
                         rev)
             IN  IF made.raised THEN unchanged("validation", <<>>)
                 ELSE [raised |-> FALSE, error |-> "none", value |-> <<>>,
                       local |-> made.local,
                       sub_names |-> subs.names, ses_names |-> sess.names]

(***************************************************************************)
(* The third specification: folders made from the names as passed.         *)
(***************************************************************************)
\* folders (subjects plus sessions) made in the local project
MaxRawFolders == 3

\* project.make_folders(sub_names, ses_names) with the names as passed
MakeFoldersFromStrings ==
    /\ out = Idle
    /\ \E raw_sub \in Batches(RawSubNames, MaxBatch) \ {<<>>},
          raw_ses \in Batches(RawSesNames, 1), rev \in BOOLEAN :
         LET made == make_folders_from_strings(local, central, raw_sub,
                                               raw_ses, rev)
         IN  /\ NFolders(made.local) <= MaxRawFolders
             /\ local' = made.local
             /\ out' = [op |-> "make_folders_from_strings",
                        raw_sub |-> raw_sub, raw_ses |-> raw_ses,
                        sub_names |-> made.sub_names,
                        ses_names |-> made.ses_names,
                        raised |-> made.raised, error |-> made.error,
                        value |-> made.value]
    /\ UNCHANGED <<central, persistent_settings, cfg, tui>>

NextNames ==
    \/ MakeFoldersFromStrings
    \/ Rmtree
    \/ Return

SpecNames == Init /\ [][NextNames]_vars

(***************************************************************************)
(* C13.                                                                    *)
(***************************************************************************)
\* the name has an underscore where the hyphen of the prefix should be:
\* "sub_..." for the prefix "sub-"
Underscored(name, prefix) ==
    /\ Len(name) >= Len(prefix)
    /\ Take(name, Len(prefix) - 1) = Take(prefix, Len(prefix) - 1)
    /\ name[Len(prefix)] = "_"

\* "sub" / "ses": the prefix without its hyphen
Literal(prefix) == Take(prefix, Len(prefix) - 1)

\* C13: a candidate written with an underscore instead of the hyphen after
\* the prefix ("sub_100", "ses_100") is first prefixed ("sub-sub_100",
\* "ses-ses_100"); the call then raises and makes no folder, and the
\* invalid-character error it raises for that name has as value the prefix
\* literal ("sub", "ses").
C13_UnderscoreNameRejected ==
    [][(out.op = "none" /\ out'.op = "make_folders_from_strings") =>
           LET o == out'
               bad_subs == {i \in DOMAIN o.raw_sub :
                               Underscored(o.raw_sub[i], SubPrefix)}
               bad_sess == {i \in DOMAIN o.raw_ses :
                               Underscored(o.raw_ses[i], SesPrefix)}
               \* the one other ill-formed subject name passed: "sub"
               other_bad_sub ==
                   \E i \in DOMAIN o.raw_sub : o.raw_sub[i] = Literal(SubPrefix)
           IN  (bad_subs # {} \/ bad_sess # {}) =>
                   /\ o.raised
                   /\ local' = local /\ central' = central
                   /\ o.error \in {"not_unique", "invalid_character"}
                   /\ o.error = "invalid_character" =>
                          /\ \A i \in bad_subs :
                                 o.sub_names[i] = SubPrefix \o o.raw_sub[i]
                          /\ \A i \in bad_sess :
                                 o.ses_names[i] = SesPrefix \o o.raw_ses[i]
                          /\ o.value = IF bad_subs # {} \/ other_bad_sub
                                       THEN Literal(SubPrefix)
                                       ELSE Literal(SesPrefix)]_vars

\* a make_folders call with the subject "sub_100" that raised the invalid
\* character error with the value "sub", in a project that has folders
C13_Witness ==
    /\ out.op = "make_folders_from_strings"
    /\ \E i \in DOMAIN out.raw_sub :
           /\ out.raw_sub[i] = <<"s", "u", "b", "_", "1", "0", "0">>
           /\ out.sub_names[i]
                  = <<"s", "u", "b", "-", "s", "u", "b", "_", "1", "0", "0">>
    /\ out.raised
    /\ out.error = "invalid_character"
    /\ out.value = <<"s", "u", "b">>
    /\ DOMAIN local # {}

(***************************************************************************)
(* The name parser: a name "prefix-value_key-value..." is split on "_"     *)
(* into components and each component on its first "-" into key and value. *)
(***************************************************************************)
\* components in a name passed to the parser
MaxComponents == 3

\* str.split(sep): the pieces between the separators, empty ones included
RECURSIVE Split(_, _)
Split(str, sep) ==
    LET at == Find(str, sep)
    IN  IF at = 0 THEN <<str>>
        ELSE <<Take(str, at - 1)>> \o Split(Drop(str, at), sep)

\* sep.join(pieces)
RECURSIVE Join(_, _)
Join(pieces, sep) ==
    IF pieces = <<>> THEN <<>>
    ELSE IF Len(pieces) = 1 THEN pieces[1]
    ELSE pieces[1] \o <<sep>> \o Join(Tail(pieces), sep)

\* characters a key cannot have ("-" and "_" cannot be in a key as split)
DisallowedInKey == {" "}

\* the value of the first component is taken for a key of the name
parse_name_value_not_checked(name, prefix) ==
    LET parts == Split(name, "_")
        pair(part) ==
            [key |-> Take(part, Find(part, "-") - 1),
             value |-> Drop(part, Find(part, "-"))]
        components == [i \in DOMAIN parts |-> pair(parts[i])]
        failed ==
            \/ \E i \in DOMAIN parts : Find(parts[i], "-") = 0
            \/ components[1].key # prefix
            \/ \E i \in DOMAIN components :
                   \/ components[i].key = <<>>
                   \/ \E k \in DOMAIN components[i].key :
                          components[i].key[k] \in DisallowedInKey
            \/ \E i, j \in DOMAIN components :
                   i # j /\ components[i].key = components[j].key
    IN  IF failed THEN [ok |-> FALSE, components |-> <<>>]
        ELSE [ok |-> TRUE, components |-> components]

\* parse_name(name, prefix) with prefix "sub" or "ses": fails
\* (InvalidCharacter) when a component has no "-", when the first key is
\* not the prefix, when a key is empty or has a disallowed character, when
\* a key comes twice, and when the value of the first component is the
\* prefix literal again ("sub-sub", from a malformed "sub_100").
parse_name(name, prefix) ==
    LET parts == Split(name, "_")
        pair(part) ==
            [key |-> Take(part, Find(part, "-") - 1),
             value |-> Drop(part, Find(part, "-"))]
        components == [i \in DOMAIN parts |-> pair(parts[i])]
        failed ==
            \/ \E i \in DOMAIN parts : Find(parts[i], "-") = 0
            \/ components[1].key # prefix
            \/ \E i \in DOMAIN components :
                   \/ components[i].key = <<>>
                   \/ \E k \in DOMAIN components[i].key :
                          components[i].key[k] \in DisallowedInKey
            \/ \E i, j \in DOMAIN components :
                   i # j /\ components[i].key = components[j].key
            \/ components[1].value = prefix
    IN  IF failed THEN [ok |-> FALSE, components |-> <<>>]
        ELSE [ok |-> TRUE, components |-> components]

\* the components of a parsed name written as a name again
serialize_name(components) ==
    Join([i \in DOMAIN components |->
             components[i].key \o <<"-">> \o components[i].value], "_")

\* The components the names passed to the parser are put together from:
\* "sub-1", "ses-1", "id-a", "id-a-b", "id", "-a", "", "sub-sub", "100",
\* "sub", "sub-", "i d-a"
ParseComponents ==
    {<<"s", "u", "b", "-", "1">>, <<"s", "e", "s", "-", "1">>,
     <<"i", "d", "-", "a">>, <<"i", "d", "-", "a", "-", "b">>,
     <<"i", "d">>, <<"-", "a">>, <<>>,
     <<"s", "u", "b", "-", "s", "u", "b">>, <<"1", "0", "0">>,
     <<"s", "u", "b">>, <<"s", "u", "b", "-">>,
     <<"i", " ", "d", "-", "a">>}

ParseNames ==
    {Join(b, "_") : b \in Batches(ParseComponents, MaxComponents) \ {<<>>}}

\* "sub" and "ses"
ParsePrefixes == {<<"s", "u", "b">>, <<"s", "e", "s">>}

\* parse_name(name, prefix)
ParseName ==
    /\ out = Idle
    /\ \E name \in ParseNames, prefix \in ParsePrefixes :
         LET res == parse_name(name, prefix)
         IN  out' = [op |-> "parse_name", name |-> name, prefix |-> prefix,
                     res |-> res,
                     serialized |-> IF res.ok
                                    THEN serialize_name(res.components)
                                    ELSE <<>>]
    /\ UNCHANGED <<local, central, persistent_settings, cfg, tui>>

NextParse ==
    \/ ParseName
    \/ Return

SpecParse == Init /\ [][NextParse]_vars

(***************************************************************************)
(* C14.                                                                    *)
(***************************************************************************)
\* The grammar key-value(_key-value)* read character by character: the
\* keys found, in order, when the string matches, with a key a non-empty
\* run of characters other than "-", "_" and blank, and a value a run of
\* characters other than "_".
RECURSIVE ScanGrammar(_, _, _, _, _)
ScanGrammar(str, i, in_key, key, keys) ==
    IF i > Len(str)
    THEN [ok |-> ~in_key, keys |-> keys]
    ELSE IF in_key
    THEN IF str[i] = "-"
         THEN IF key = <<>> THEN [ok |-> FALSE, keys |-> keys]
              ELSE ScanGrammar(str, i + 1, FALSE, <<>>, Append(keys, key))
         ELSE IF str[i] \in {"_", " "} THEN [ok |-> FALSE, keys |-> keys]
         ELSE ScanGrammar(str, i + 1, TRUE, Append(key, str[i]), keys)
    ELSE IF str[i] = "_" THEN ScanGrammar(str, i + 1, TRUE, <<>>, keys)
         ELSE ScanGrammar(str, i + 1, FALSE, <<>>, keys)

\* the name matches prefix-value(_key-value)* with pairwise distinct keys
\* and first key equal to prefix
MatchesGrammar(name, prefix) ==
    LET scan == ScanGrammar(name, 1, TRUE, <<>>, <<>>)
    IN  /\ scan.ok
        /\ scan.keys[1] = prefix
        /\ \A i, j \in DOMAIN scan.keys : i # j => scan.keys[i] # scan.keys[j]

IsParseName == out.op = "parse_name"

AtomLen(regexp, i) == IF regexp[i] = "\\" THEN 2 ELSE 1

\* character c matches the atom at position i: "\d" a digit, "." any
\* character, an escaped or plain character itself
AtomMatches(regexp, i, c) ==
    IF regexp[i] = "\\"
    THEN IF regexp[i + 1] = "d" THEN c \in DigitChars ELSE c = regexp[i + 1]
    ELSE IF regexp[i] = "." THEN TRUE
    ELSE c = regexp[i]

\* regexp[i:] matches name[j:] to its end; an atom may be followed by "?"
\* (once or not at all) or "*" (any number of times)
RECURSIVE MatchFrom(_, _, _, _)
MatchFrom(regexp, i, name, j) ==
    IF i > Len(regexp) THEN j > Len(name)
    ELSE LET after == i + AtomLen(regexp, i)
             quantifier == IF after <= Len(regexp)
                              /\ regexp[after] \in {"?", "*"}
                           THEN regexp[after] ELSE ""
             here == j <= Len(name) /\ AtomMatches(regexp, i, name[j])
         IN  CASE quantifier = "?" ->
                    \/ MatchFrom(regexp, after + 1, name, j)
                    \/ here /\ MatchFrom(regexp, after + 1, name, j + 1)
               [] quantifier = "*" ->
                    \/ MatchFrom(regexp, after + 1, name, j)
                    \/ here /\ MatchFrom(regexp, i, name, j + 1)
               [] OTHER -> here /\ MatchFrom(regexp, after, name, j + 1)

\* re.fullmatch(regexp, name)
re_fullmatch(regexp, name) == MatchFrom(regexp, 1, name, 1)

\* "The name: {name} does not match the template: {regexp}"
TemplateMessage(name, regexp) ==
    <<"T", "h", "e", " ", "n", "a", "m", "e", ":", " ">> \o name
    \o <<" ", "d", "o", "e", "s", " ", "n", "o", "t", " ", "m", "a", "t", "c",
         "h", " ", "t", "h", "e", " ", "t", "e", "m", "p", "l", "a", "t", "e",
         ":", " ">> \o regexp

\* the names are matched although the templates are off
names_dont_match_templates_on_ignored(names, prefix_key, name_templates) ==
    LET regexp == name_templates[prefix_key]
    IN  IF regexp = None THEN <<>>
        ELSE LET Bad(name) == ~re_fullmatch(regexp, name)
                 bad_names == SelectSeq(names, Bad)
             IN  [k \in DOMAIN bad_names |->
                     TemplateMessage(bad_names[k], regexp)]

\* the messages for the names of the list that do not match the template
\* of their prefix; none when the templates are off or the prefix has none
names_dont_match_templates(names, prefix_key, name_templates) ==
    LET regexp == name_templates[prefix_key]
    IN  IF ~name_templates.on \/ regexp = None THEN <<>>
        ELSE LET Bad(name) == ~re_fullmatch(regexp, name)
                 bad_names == SelectSeq(names, Bad)
             IN  [k \in DOMAIN bad_names |->
                     TemplateMessage(bad_names[k], regexp)]

\* project.make_folders with name templates: the names are prefixed and
\* their values checked, every name must match the template of its prefix,
\* and then the names are validated against the project and the folders
\* made.  The first name that does not match raises with its message.
make_folders_with_templates(loc, cen, sub_names, ses_names, rev, name_templates) ==
    LET with_message(made, message) ==
            [raised |-> made.raised, error |-> made.error,
             value |-> made.value, local |-> made.local,
             sub_names |-> made.sub_names, ses_names |-> made.ses_names,
             message |-> message]
        matched(plain, messages) ==
            IF plain.error \in {"not_unique", "invalid_character"}
            THEN with_message(plain, <<>>)
            ELSE IF messages # <<>>
            THEN [raised |-> TRUE, error |-> "template", value |-> <<>>,
                  local |-> loc, sub_names |-> plain.sub_names,
                  ses_names |-> plain.ses_names, message |-> messages[1]]
            ELSE with_message(plain, <<>>)
        templated(plain) ==
            matched(plain,
                    names_dont_match_templates(plain.sub_names, "sub",
                                               name_templates)
                    \o names_dont_match_templates(plain.ses_names, "ses",
                                                  name_templates))
    IN  templated(make_folders_from_strings(loc, cen, sub_names, ses_names,
                                            rev))

(***************************************************************************)
(* The fifth specification: project instances are opened on one project,   *)
(* read and update its persistent settings, lose the settings file, and    *)
(* make folders under the name templates stored in it.                     *)
(***************************************************************************)
\* folders (subjects plus sessions) made in the local project
MaxTemplateFolders == 2

\* "sub-\d_id-.?.?_r-.*"
SubRegexp ==
    <<"s", "u", "b", "-", "\\", "d", "_", "i", "d", "-", ".", "?", ".", "?",
      "_", "r", "-", ".", "*">>

\* "ses-\d\d_id-.*"
SesRegexp ==
    <<"s", "e", "s", "-", "\\", "d", "\\", "d", "_", "i", "d", "-", ".", "*">>

\* the name templates a user sets
NameTemplates ==
    [on : BOOLEAN, sub : {None, SubRegexp}, ses : {None, SesRegexp}]

\* "sub-2_id-ab_r-x" and "sub-3_id-abC_r-x"
TemplateSubNames ==
    {<<"s", "u", "b", "-", "2", "_", "i", "d", "-", "a", "b", "_", "r", "-", "x">>,
     <<"s", "u", "b", "-", "3", "_", "i", "d", "-", "a", "b", "C", "_", "r", "-",
       "x">>}

\* "ses-33_id-x", "ses-33_iD-x" and "ses-02"
TemplateSesNames ==
    {<<"s", "e", "s", "-", "3", "3", "_", "i", "d", "-", "x">>,
     <<"s", "e", "s", "-", "3", "3", "_", "i", "D", "-", "x">>,
     <<"s", "e", "s", "-", "0", "2">>}

TopLevelFolders == {"rawdata", "derivatives"}

\* DataShuttle(project_name): the instance takes its top level folder from
\* the settings file, which is written with the defaults when not on disk
OpenProject ==
    /\ out = Idle
    /\ \E i \in Instances :
         /\ persistent_settings' = init_persistent_settings(persistent_settings)
         /\ cfg' = [cfg EXCEPT ![i] = OpenedOn(persistent_settings)]
         /\ out' = [op |-> "open_project", instance |-> i,
                    top_level_folder |-> cfg'[i].top_level_folder]
    /\ UNCHANGED <<local, central, tui>>

\* project._load_persistent_settings()
LoadPersistentSettings ==
    /\ out = Idle
    /\ \E i \in Instances :
         /\ cfg[i].open
         /\ persistent_settings' = init_persistent_settings(persistent_settings)
         /\ out' = [op |-> "load_persistent_settings", instance |-> i,
                    settings |-> load_persistent_settings(persistent_settings)]
    /\ UNCHANGED <<local, central, cfg, tui>>

\* project._update_persistent_setting("top_level_folder", value)
UpdatePersistentSetting ==
    /\ out = Idle
    /\ \E i \in Instances, value \in TopLevelFolders :
         /\ cfg[i].open
         /\ persistent_settings' =
                update_persistent_setting(persistent_settings,
                                          "top_level_folder", value)
         /\ out' = [op |-> "update_persistent_setting", instance |-> i,
                    setting_name |-> "top_level_folder", value |-> value]
    /\ UNCHANGED <<local, central, cfg, tui>>

\* project.set_top_level_folder(folder_name)
SetTopLevelFolder ==
    /\ out = Idle
    /\ \E i \in Instances, folder_name \in TopLevelFolders :
         /\ cfg[i].open
         /\ cfg' = [cfg EXCEPT ![i].top_level_folder = folder_name]
         /\ persistent_settings' =
                update_persistent_setting(persistent_settings,
                                          "top_level_folder", folder_name)
         /\ out' = [op |-> "set_top_level_folder", instance |-> i,
                    setting_name |-> "top_level_folder", value |-> folder_name]
    /\ UNCHANGED <<local, central, tui>>

\* project.set_name_templates(new_name_templates)
SetNameTemplates ==
    /\ out = Idle
    /\ \E i \in Instances, new_name_templates \in NameTemplates :
         /\ cfg[i].open
         /\ persistent_settings' =
                update_persistent_setting(persistent_settings,
                                          "name_templates", new_name_templates)
         /\ out' = [op |-> "set_name_templates", instance |-> i,
                    setting_name |-> "name_templates",
                    value |-> new_name_templates]
    /\ UNCHANGED <<local, central, cfg, tui>>

\* project.get_name_templates()
GetNameTemplates ==
    /\ out = Idle
    /\ \E i \in Instances :
         /\ cfg[i].open
         /\ persistent_settings' = init_persistent_settings(persistent_settings)
         /\ out' = [op |-> "get_name_templates", instance |-> i,
                    name_templates |->
                        load_persistent_settings(persistent_settings)
                            .name_templates]
    /\ UNCHANGED <<local, central, cfg, tui>>

\* (project._datashuttle_path / "persistent_settings.yaml").unlink()
Unlink ==
    /\ out = Idle
    /\ persistent_settings.is_file
    /\ persistent_settings' = NoFile
    /\ UNCHANGED <<local, central, out, cfg, tui>>

\* project.make_folders(sub_names, ses_names) through an instance whose top
\* level folder is the one `local` stands for; the name templates are read
\* from the settings file
MakeFoldersWithTemplates ==
    /\ out = Idle
    /\ \E i \in Instances, sub_name \in TemplateSubNames,
          ses_names \in Batches(TemplateSesNames, 1), rev \in BOOLEAN :
         \E name_templates \in
                {load_persistent_settings(persistent_settings).name_templates} :
           \E made \in {make_folders_with_templates(
                              local, central, <<sub_name>>, ses_names, rev,
                              name_templates)} :
             /\ cfg[i].open
             /\ cfg[i].top_level_folder = "rawdata"
             /\ NFolders(made.local) <= MaxTemplateFolders
             /\ persistent_settings' =
                    init_persistent_settings(persistent_settings)
             /\ local' = made.local
             /\ out' = [op |-> "make_folders_with_templates", instance |-> i,
                        name_templates |-> name_templates,
                        sub_names |-> made.sub_names,
                        ses_names |-> made.ses_names,
                        raised |-> made.raised, error |-> made.error,
                        message |-> made.message]
    /\ UNCHANGED <<central, cfg, tui>>

NextSettings ==
    \/ OpenProject
    \/ LoadPersistentSettings
    \/ UpdatePersistentSetting
    \/ SetTopLevelFolder
    \/ SetNameTemplates
    \/ GetNameTemplates
    \/ Unlink
    \/ MakeFoldersWithTemplates
    \/ Rmtree
    \/ Return

SpecSettings == Init /\ [][NextSettings]_vars

(***************************************************************************)
(* C15.                                                                    *)
(***************************************************************************)
\* str occurs in message as it stands
Contains(message, str) ==
    \E k \in 0 .. Len(message) - Len(str) :
        SubSeq(message, k + 1, k + Len(str)) = str

\* the names of the list that do not match the template set for their prefix
Mismatching(names, regexp) ==
    {names[i] : i \in {j \in DOMAIN names :
                          regexp # None /\ ~re_fullmatch(regexp, names[j])}}

IsMakeFoldersWithTemplates == out.op = "make_folders_with_templates"

\* C15: Template matching depends only on the `on` flag and the template of
\* the relevant prefix.  A call of make_folders whose names pass the name
\* format checks is rejected for a template mismatch exactly when the
\* templates are on and some subject name does not match the set subject
\* template or some session name does not match the set session template;
\* the message then contains such a name and its template verbatim and no
\* folder is made.  In every other case (all names match, no template is
\* set, or the templates are off) the call does what it does without
\* templates, and the templates stay in the settings file as they were.
C15_TemplateMatching ==
    [][(out = Idle /\ out'.op = "make_folders_with_templates")
       => LET t == load_persistent_settings(persistent_settings).name_templates
              bad_sub == Mismatching(out'.sub_names, t.sub)
              bad_ses == Mismatching(out'.ses_names, t.ses)
              rejected == t.on /\ (bad_sub \cup bad_ses) # {}
          IN  /\ out'.name_templates = t
              /\ load_persistent_settings(persistent_settings').name_templates = t
              /\ out'.error \notin {"not_unique", "invalid_character"}
                 => /\ (out'.error = "template") <=> rejected
                    /\ rejected
                       => /\ out'.raised
                          /\ local' = local
                          /\ \/ \E name \in bad_sub :
                                  /\ Contains(out'.message, name)
                                  /\ Contains(out'.message, t.sub)
                             \/ \E name \in bad_ses :
                                  /\ Contains(out'.message, name)
                                  /\ Contains(out'.message, t.ses)
                    /\ ~rejected
                       => \E rev \in BOOLEAN :
                            \E plain \in {make_folders_from_strings(
                                              local, central, out'.sub_names,
                                              out'.ses_names, rev)} :
                              /\ out'.raised = plain.raised
                              /\ out'.error = plain.error
                              /\ local' = plain.local]_vars

\* with the templates on, "sub-3_id-abC_r-x" was rejected with the message
\* "The name: sub-3_id-abC_r-x does not match the template:
\* sub-\d_id-.?.?_r-.*", and nothing was made
C15_Witness ==
    /\ IsMakeFoldersWithTemplates
    /\ out.name_templates.on
    /\ out.name_templates.sub = SubRegexp
    /\ out.sub_names =
         << <<"s", "u", "b", "-", "3", "_", "i", "d", "-", "a", "b", "C", "_",
              "r", "-", "x">> >>
    /\ out.raised
    /\ out.error = "template"
    /\ out.message = TemplateMessage(out.sub_names[1], SubRegexp)
    /\ local = EmptyTree

(***************************************************************************)
(* C16.                                                                    *)
(***************************************************************************)
\* the name templates a project instance would be given now
StoredNameTemplates(file) == load_persistent_settings(file).name_templates

\* C16: Name-template settings round-trip through persistent storage.  The
\* name templates of a fresh project are {on: False, sub: None, ses: None}.
\* set_name_templates(t) stores exactly the three fields of t, and
\* get_name_templates returns what is stored, whichever instance asks and
\* however many instances were opened in between.  While the settings file
\* stays on disk, no operation other than set_name_templates changes the
\* stored templates.
C16_NameTemplatesRoundTrip ==
    /\ StoredNameTemplates(persistent_settings)
         = [on |-> FALSE, sub |-> None, ses |-> None]
    /\ [][/\ out'.op = "set_name_templates" /\ out = Idle
             => /\ StoredNameTemplates(persistent_settings') = out'.value
                /\ DOMAIN StoredNameTemplates(persistent_settings')
                     = {"on", "sub", "ses"}
          /\ out'.op = "get_name_templates" /\ out = Idle
             => /\ out'.name_templates = StoredNameTemplates(persistent_settings)
                /\ StoredNameTemplates(persistent_settings')
                     = StoredNameTemplates(persistent_settings)
          /\ (/\ persistent_settings.is_file
              /\ persistent_settings'.is_file
              /\ StoredNameTemplates(persistent_settings')
                   # StoredNameTemplates(persistent_settings))
             => out = Idle /\ out'.op = "set_name_templates"]_vars

\* the second instance, opened on the project, was given the templates
\* {on: True, sub: "sub-\d_id-.?.?_r-.*", ses: "ses-\d\d_id-.*"} that were
\* set, while the first instance is open too
C16_Witness ==
    /\ out.op = "get_name_templates"
    /\ out.instance = 2
    /\ cfg[1].open
    /\ out.name_templates = [on |-> TRUE, sub |-> SubRegexp, ses |-> SesRegexp]

(***************************************************************************)
(* C17.                                                                    *)
(***************************************************************************)
\* C17: Persistent settings survive across project instances and recover
\* from loss.  The settings of a fresh project have exactly three top-level
\* keys and the top level folder "rawdata".  An update stores the value
\* given; every load, and every opening of a project instance, returns what
\* is stored; while the settings file stays on disk the stored top level
\* folder changes only through an update.  When the settings file is not
\* on disk, a project can be opened, and opening it writes the defaults and
\* gives the instance the top level folder "rawdata".
C17_PersistentSettingsSurvive ==
    /\ Cardinality(DOMAIN load_persistent_settings(persistent_settings)) = 3
    /\ load_persistent_settings(persistent_settings).top_level_folder = "rawdata"
    /\ [](~persistent_settings.is_file /\ out = Idle => ENABLED OpenProject)
    /\ [][/\ (out = Idle /\ out'.op \in {"update_persistent_setting",
                                         "set_top_level_folder"})
             => /\ persistent_settings'.is_file
                /\ persistent_settings'.settings.top_level_folder = out'.value
          /\ (out = Idle /\ out'.op = "load_persistent_settings")
             => /\ out'.settings = load_persistent_settings(persistent_settings)
                /\ load_persistent_settings(persistent_settings')
                     = out'.settings
          /\ (out = Idle /\ out'.op = "open_project")
             => /\ cfg'[out'.instance].open
                /\ cfg'[out'.instance].top_level_folder
                     = load_persistent_settings(persistent_settings)
                           .top_level_folder
                /\ persistent_settings'.is_file
                /\ persistent_settings'.settings
                     = load_persistent_settings(persistent_settings)
                /\ ~persistent_settings.is_file
                   => /\ persistent_settings'.settings.top_level_folder
                           = "rawdata"
                      /\ Cardinality(DOMAIN persistent_settings'.settings) = 3
                      /\ cfg'[out'.instance].top_level_folder = "rawdata"
          /\ (/\ persistent_settings.is_file
              /\ persistent_settings'.is_file
              /\ persistent_settings'.settings.top_level_folder
                   # persistent_settings.settings.top_level_folder)
             => /\ out = Idle
                /\ out'.op \in {"update_persistent_setting",
                                "set_top_level_folder"}]_vars

\* a project instance was opened while the first instance has the top
\* level folder "derivatives" and the settings file was not on disk: it
\* has the top level folder "rawdata" and the file holds the defaults
C17_Witness ==
    /\ out.op = "open_project"
    /\ out.instance = 2
    /\ cfg[1].top_level_folder = "derivatives"
    /\ cfg[2].top_level_folder = "rawdata"
    /\ persistent_settings = save_persistent_settings(get_persistent_settings_defaults)

(***************************************************************************)
(* The configs of a project.  A config dict is the sequence of its items   *)
(* (key, value) in the order of the dict; a value carries its Python type  *)
(* and what the checks read from it.                                       *)
(***************************************************************************)
\* the keys of get_canonical_configs(), in its order
CanonicalKeys ==
    <<"local_path", "central_path", "connection_method", "central_host_id",
      "central_host_username", "overwrite_old_files", "transfer_verbosity",
      "show_transfer_progress">>

\* the permitted types: Literal[...] with its values, Union[...] /
\* Optional[...] with its types, or a single type (get_args is empty)
get_canonical_configs ==
    [local_path |-> [origin |-> "Union", args |-> {"str", "Path"}],
     central_path |-> [origin |-> "Union", args |-> {"str", "Path"}],
     connection_method |->
         [origin |-> "Literal", args |-> {"ssh", "local_filesystem"}],
     central_host_id |-> [origin |-> "Union", args |-> {"str", "NoneType"}],
     central_host_username |->
         [origin |-> "Union", args |-> {"str", "NoneType"}],
     overwrite_old_files |-> [origin |-> "bool", args |-> {}],
     transfer_verbosity |-> [origin |-> "Literal", args |-> {"v", "vv"}],
     show_transfer_progress |-> [origin |-> "bool", args |-> {}]]

\* values
PathValue(start, stem, parent_is_dir, can_make) ==
    [type |-> "Path", start |-> start, stem |-> stem,
     parent_is_dir |-> parent_is_dir, can_make |-> can_make]

StrValue(str) == [type |-> "str", str |-> str]

BoolValue(b) == [type |-> "bool", bool |-> b]

NoneValue == [type |-> "NoneType"]

IntValue == [type |-> "int"]

ProjectName == "project"

\* config_dict.keys()
ConfigKeys(config_dict) == [i \in DOMAIN config_dict |-> config_dict[i].key]

\* config_dict[key]
ConfigValue(config_dict, key) ==
    config_dict[CHOOSE i \in DOMAIN config_dict : config_dict[i].key = key]
        .value

\* the first item of the sequence that is in the set (the sequence has one)
FirstIn(keys, S) ==
    keys[CHOOSE i \in DOMAIN keys :
            keys[i] \in S /\ \A j \in 1 .. i - 1 : keys[j] \notin S]

\* the value is one of the values of the Literal
InLiteral(value, args) == value.type = "str" /\ value.str \in args

\* check_config_types: the first key of the config, in its order, whose
\* value is not of the type asked for ("" when every value is)
check_config_types(config_dict) ==
    LET required_types == get_canonical_configs
        keys == ConfigKeys(config_dict)
        bad == {keys[i] : i \in
                   {j \in DOMAIN keys :
                       LET expected_type == required_types[keys[j]]
                           value == config_dict[j].value
                       IN  IF expected_type.origin = "Literal"
                           THEN ~InLiteral(value, expected_type.args)
                           ELSE IF expected_type.args = {}
                           THEN value.type # expected_type.origin
                           ELSE value.type \notin expected_type.args}}
    IN  IF bad = {} THEN "" ELSE FirstIn(keys, bad)

\* the outcome of a check that raised; `made`: the local project folder
\* was made
Raised(exception, check, key) ==
    [raised |-> TRUE, exception |-> exception, check |-> check, key |-> key,
     made |-> FALSE]

\* the outcome of a check that raised after the project folder was made
RaisedAfterMaking(exception, check, key) ==
    [raised |-> TRUE, exception |-> exception, check |-> check, key |-> key,
     made |-> TRUE]

\* the types are checked before the keys
check_dict_values_types_first(config_dict) ==
    LET keys == ConfigKeys(config_dict)
        checked == SelectSeq(config_dict,
                             LAMBDA item : item.key \in Range(CanonicalKeys))
    IN  IF check_config_types(checked) # ""
        THEN Raised("ConfigError", "type", check_config_types(checked))
        ELSE IF Range(CanonicalKeys) \ Range(keys) # {}
        THEN Raised("ConfigError", "missing_key",
                    FirstIn(CanonicalKeys, Range(CanonicalKeys) \ Range(keys)))
        ELSE IF Range(keys) \ Range(CanonicalKeys) # {}
        THEN Raised("ConfigError", "invalid_key",
                    FirstIn(keys, Range(keys) \ Range(CanonicalKeys)))
        ELSE [raised |-> FALSE, exception |-> "none", check |-> "none",
              key |-> "", made |-> TRUE]

\* the checks on one path of the config: no "~", no dot syntax, the last
\* folder is the project name ("" when all pass)
PathCheck(path) ==
    IF path.start = "~" THEN "tilde"
    ELSE IF path.start = "." THEN "dot"
    ELSE IF path.stem # ProjectName THEN "project_name"
    ELSE ""

\* `not value` for a host id or a user name: None or the empty string
IsFalsy(value) == value.type = "NoneType" \/ (value.type = "str" /\ value.str = "")

\* the order of the keys is not checked
check_dict_values_order_not_checked(config_dict) ==
    LET canonical == Range(CanonicalKeys)
        keys == ConfigKeys(config_dict)
        value(key) == ConfigValue(config_dict, key)
    IN  IF canonical \ Range(keys) # {}
        THEN Raised("ConfigError", "missing_key",
                    FirstIn(CanonicalKeys, canonical \ Range(keys)))
        ELSE IF Range(keys) \ canonical # {}
        THEN Raised("ConfigError", "invalid_key",
                    FirstIn(keys, Range(keys) \ canonical))
        ELSE IF check_config_types(config_dict) # ""
        THEN Raised("ConfigError", "type", check_config_types(config_dict))
        ELSE IF value("connection_method").str \notin {"ssh", "local_filesystem"}
        THEN Raised("ConfigError", "connection_method", "connection_method")
        ELSE IF PathCheck(value("local_path")) # ""
        THEN Raised("ConfigError", PathCheck(value("local_path")), "local_path")
        ELSE IF PathCheck(value("central_path")) # ""
        THEN Raised("ConfigError", PathCheck(value("central_path")),
                    "central_path")
        ELSE IF ~value("local_path").parent_is_dir
        THEN Raised("FileNotFoundError", "folder_above", "local_path")
        ELSE IF /\ value("connection_method").str = "local_filesystem"
                /\ ~value("central_path").parent_is_dir
        THEN Raised("FileNotFoundError", "folder_above", "central_path")
        ELSE IF /\ value("connection_method").str = "ssh"
                /\ \/ IsFalsy(value("central_host_id"))
                   \/ IsFalsy(value("central_host_username"))
        THEN Raised("ConfigError", "ssh", "")
        ELSE IF value("transfer_verbosity").str \notin {"v", "vv"}
        THEN Raised("ConfigError", "transfer_verbosity", "transfer_verbosity")
        ELSE IF ~value("local_path").can_make
        THEN Raised("RuntimeError", "make_folders", "local_path")
        ELSE [raised |-> FALSE, exception |-> "none", check |-> "none",
              key |-> "", made |-> TRUE]

\* the local project folder is made before the checks
check_dict_values_folder_made_first(config_dict) ==
    LET canonical == Range(CanonicalKeys)
        keys == ConfigKeys(config_dict)
        value(key) == ConfigValue(config_dict, key)
    IN  IF canonical \ Range(keys) # {}
        THEN RaisedAfterMaking("ConfigError", "missing_key",
                    FirstIn(CanonicalKeys, canonical \ Range(keys)))
        ELSE IF Range(keys) \ canonical # {}
        THEN RaisedAfterMaking("ConfigError", "invalid_key",
                    FirstIn(keys, Range(keys) \ canonical))
        ELSE IF check_config_types(config_dict) # ""
        THEN RaisedAfterMaking("ConfigError", "type", check_config_types(config_dict))
        ELSE IF keys # CanonicalKeys
        THEN RaisedAfterMaking("ConfigError", "order", "")
        ELSE IF value("connection_method").str \notin {"ssh", "local_filesystem"}
        THEN RaisedAfterMaking("ConfigError", "connection_method", "connection_method")
        ELSE IF PathCheck(value("local_path")) # ""
        THEN RaisedAfterMaking("ConfigError", PathCheck(value("local_path")), "local_path")
        ELSE IF PathCheck(value("central_path")) # ""
        THEN RaisedAfterMaking("ConfigError", PathCheck(value("central_path")),
                    "central_path")
        ELSE IF ~value("local_path").parent_is_dir
        THEN RaisedAfterMaking("FileNotFoundError", "folder_above", "local_path")
        ELSE IF /\ value("connection_method").str = "local_filesystem"
                /\ ~value("central_path").parent_is_dir
        THEN RaisedAfterMaking("FileNotFoundError", "folder_above", "central_path")
        ELSE IF /\ value("connection_method").str = "ssh"
                /\ \/ IsFalsy(value("central_host_id"))
                   \/ IsFalsy(value("central_host_username"))
        THEN RaisedAfterMaking("ConfigError", "ssh", "")
        ELSE IF value("transfer_verbosity").str \notin {"v", "vv"}
        THEN RaisedAfterMaking("ConfigError", "transfer_verbosity", "transfer_verbosity")
        ELSE IF ~value("local_path").can_make
        THEN Raised("RuntimeError", "make_folders", "local_path")
        ELSE [raised |-> FALSE, exception |-> "none", check |-> "none",
              key |-> "", made |-> TRUE]

\* check_dict_values_raise_on_fail: the first check that fails raises
check_dict_values_raise_on_fail(config_dict) ==
    LET canonical == Range(CanonicalKeys)
        keys == ConfigKeys(config_dict)
        value(key) == ConfigValue(config_dict, key)
    IN  IF canonical \ Range(keys) # {}
        THEN Raised("ConfigError", "missing_key",
                    FirstIn(CanonicalKeys, canonical \ Range(keys)))
        ELSE IF Range(keys) \ canonical # {}
        THEN Raised("ConfigError", "invalid_key",
                    FirstIn(keys, Range(keys) \ canonical))
        ELSE IF check_config_types(config_dict) # ""
        THEN Raised("ConfigError", "type", check_config_types(config_dict))
        ELSE IF keys # CanonicalKeys
        THEN Raised("ConfigError", "order", "")
        ELSE IF value("connection_method").str \notin {"ssh", "local_filesystem"}
        THEN Raised("ConfigError", "connection_method", "connection_method")
        ELSE IF PathCheck(value("local_path")) # ""
        THEN Raised("ConfigError", PathCheck(value("local_path")), "local_path")
        ELSE IF PathCheck(value("central_path")) # ""
        THEN Raised("ConfigError", PathCheck(value("central_path")),
                    "central_path")
        ELSE IF ~value("local_path").parent_is_dir
        THEN Raised("FileNotFoundError", "folder_above", "local_path")
        ELSE IF /\ value("connection_method").str = "local_filesystem"
                /\ ~value("central_path").parent_is_dir
        THEN Raised("FileNotFoundError", "folder_above", "central_path")
        ELSE IF /\ value("connection_method").str = "ssh"
                /\ \/ IsFalsy(value("central_host_id"))
                   \/ IsFalsy(value("central_host_username"))
        THEN Raised("ConfigError", "ssh", "")
        ELSE IF value("transfer_verbosity").str \notin {"v", "vv"}
        THEN Raised("ConfigError", "transfer_verbosity", "transfer_verbosity")
        ELSE IF ~value("local_path").can_make
        THEN Raised("RuntimeError", "make_folders", "local_path")
        ELSE [raised |-> FALSE, exception |-> "none", check |-> "none",
              key |-> "", made |-> TRUE]

(***************************************************************************)
(* The sixth specification: configs are checked.  The configs are a good   *)
(* config with at most MaxEdits of the changes below made to it.           *)
(***************************************************************************)
\* changes made to the good config
MaxEdits == 3

GoodPath == PathValue("/", ProjectName, TRUE, TRUE)

GoodConfig ==
    <<[key |-> "local_path", value |-> GoodPath],
      [key |-> "central_path", value |-> GoodPath],
      [key |-> "connection_method", value |-> StrValue("local_filesystem")],
      [key |-> "central_host_id", value |-> NoneValue],
      [key |-> "central_host_username", value |-> NoneValue],
      [key |-> "overwrite_old_files", value |-> BoolValue(FALSE)],
      [key |-> "transfer_verbosity", value |-> StrValue("v")],
      [key |-> "show_transfer_progress", value |-> BoolValue(FALSE)]>>

\* values set in place of the good ones
SetEdits ==
    {[kind |-> "set", key |-> "local_path", value |-> v] :
        v \in {PathValue("~", ProjectName, TRUE, TRUE),
               PathValue(".", ProjectName, TRUE, TRUE),
               PathValue("/", "other", TRUE, TRUE),
               PathValue("/", ProjectName, FALSE, TRUE),
               PathValue("/", ProjectName, TRUE, FALSE),
               IntValue}}
    \cup {[kind |-> "set", key |-> "central_path", value |-> v] :
            v \in {PathValue("/", ProjectName, FALSE, TRUE), IntValue}}
    \cup {[kind |-> "set", key |-> "connection_method", value |-> v] :
            v \in {StrValue("ssh"), StrValue("ftp")}}
    \cup {[kind |-> "set", key |-> "central_host_id", value |-> v] :
            v \in {StrValue("host"), IntValue}}
    \cup {[kind |-> "set", key |-> "central_host_username",
           value |-> StrValue("user")],
          [kind |-> "set", key |-> "central_host_username",
           value |-> StrValue("")],
          [kind |-> "set", key |-> "overwrite_old_files", value |-> IntValue],
          [kind |-> "set", key |-> "transfer_verbosity",
           value |-> StrValue("vvv")]}

\* keys left out, keys added in front or at the end, the first two keys in
\* the other order
KeyEdits ==
    {[kind |-> "drop", key |-> k, value |-> NoneValue] :
        k \in {"local_path", "connection_method", "show_transfer_progress"}}
    \cup {[kind |-> "add_front", key |-> "extra", value |-> NoneValue],
          [kind |-> "add_end", key |-> "other", value |-> NoneValue],
          [kind |-> "swap", key |-> "", value |-> NoneValue]}

Edits == SetEdits \cup KeyEdits

\* the config with the edits made: values set, the first two keys swapped,
\* keys dropped, keys added
Edited(config_dict, edits) ==
    LET set_to(item) ==
            IF \E e \in edits : e.kind = "set" /\ e.key = item.key
            THEN [key |-> item.key,
                  value |-> (CHOOSE e \in edits :
                                e.kind = "set" /\ e.key = item.key).value]
            ELSE item
        with_values == [i \in DOMAIN config_dict |-> set_to(config_dict[i])]
        swapped == IF \E e \in edits : e.kind = "swap"
                   THEN <<with_values[2], with_values[1]>>
                        \o SubSeq(with_values, 3, Len(with_values))
                   ELSE with_values
        kept == SelectSeq(swapped,
                          LAMBDA item : ~\E e \in edits :
                                            e.kind = "drop" /\ e.key = item.key)
        front == IF \E e \in edits : e.kind = "add_front"
                 THEN <<[key |-> "extra", value |-> NoneValue]>> ELSE <<>>
        end == IF \E e \in edits : e.kind = "add_end"
               THEN <<[key |-> "other", value |-> NoneValue]>> ELSE <<>>
    IN  front \o kept \o end

\* the sets of at most MaxEdits edits, at most one value per key
EditSets ==
    {es \in SUBSET Edits :
        /\ Cardinality(es) <= MaxEdits
        /\ \A a, b \in es : (a.kind = "set" /\ b.kind = "set" /\ a.key = b.key)
                            => a = b}

\* check_dict_values_raise_on_fail(config_dict)
CheckDictValues ==
    /\ out = Idle
    /\ \E edits \in EditSets :
         \E config_dict \in {Edited(GoodConfig, edits)} :
           out' = [op |-> "check_dict_values_raise_on_fail",
                   config_dict |-> config_dict,
                   res |-> check_dict_values_raise_on_fail(config_dict)]
    /\ UNCHANGED <<local, central, persistent_settings, cfg, tui>>

NextConfigs ==
    \/ CheckDictValues
    \/ Return

SpecConfigs == Init /\ [][NextConfigs]_vars

(***************************************************************************)
(* C18.                                                                    *)
(***************************************************************************)
IsCheckDictValues == out.op = "check_dict_values_raise_on_fail"

\* the canonical keys the config lacks
MissingKeys(config_dict) ==
    Range(CanonicalKeys) \ Range(ConfigKeys(config_dict))

\* the keys of the config outside the canonical set
UnknownKeys(config_dict) ==
    Range(ConfigKeys(config_dict)) \ Range(CanonicalKeys)

\* C18: check_dict_values_raise_on_fail rejects with ConfigError every
\* config that lacks a canonical key or has a key outside the canonical
\* set.  When a key is missing the error is the missing-key error (for the
\* first missing key in canonical order), whether or not the config has
\* unknown keys too; when no key is missing and a key is unknown the error
\* is the unknown-key error (for the first unknown key of the config); in
\* both cases whatever the types and values of the config are.
C18_KeysCheckedFirst ==
    IsCheckDictValues
    => LET config_dict == out.config_dict
           missing == MissingKeys(config_dict)
           unknown == UnknownKeys(config_dict)
       IN  /\ missing # {}
              => out.res = Raised("ConfigError", "missing_key",
                                  FirstIn(CanonicalKeys, missing))
           /\ (missing = {} /\ unknown # {})
              => out.res = Raised("ConfigError", "invalid_key",
                                  FirstIn(ConfigKeys(config_dict), unknown))
           /\ out.res.check \in {"missing_key", "invalid_key"}
              => (missing \cup unknown) # {}

\* a config that lacks "connection_method" and has the unknown key "extra"
\* was rejected for the missing key; and so was one that lacks it and has a
\* value of the wrong type
C18_Witness ==
    /\ IsCheckDictValues
    /\ MissingKeys(out.config_dict) = {"connection_method"}
    /\ \/ UnknownKeys(out.config_dict) = {"extra"}
       \/ \E i \in DOMAIN out.config_dict :
            /\ out.config_dict[i].key = "overwrite_old_files"
            /\ out.config_dict[i].value = IntValue
    /\ out.res = Raised("ConfigError", "missing_key", "connection_method")

(***************************************************************************)
(* The seventh specification: lists of names as passed are given their     *)
(* prefix, once and once more.                                             *)
(***************************************************************************)
RawNames == RawSubNames \cup RawSesNames

\* ensure_prefixes_on_list_of_names(names, prefix)
EnsurePrefixes ==
    /\ out = Idle
    /\ \E names \in Batches(RawNames, MaxRawBatch), prefix \in Prefixes :
         out' = [op |-> "ensure_prefixes_on_list_of_names", names |-> names,
                 prefix |-> prefix, again |-> FALSE,
                 res |-> ensure_prefixes_on_list_of_names(names, prefix)]
    /\ UNCHANGED <<local, central, persistent_settings, cfg, tui>>

\* ensure_prefixes_on_list_of_names on the list it returned
EnsurePrefixesAgain ==
    /\ out.op = "ensure_prefixes_on_list_of_names"
    /\ ~out.again
    /\ out' = [op |-> "ensure_prefixes_on_list_of_names", names |-> out.res,
               prefix |-> out.prefix, again |-> TRUE,
               res |-> ensure_prefixes_on_list_of_names(out.res, out.prefix)]
    /\ UNCHANGED <<local, central, persistent_settings, cfg, tui>>

\* the names passed to process_names: the names a user passes and "00002",
\* the bare form of one of them
NamesToProcess == RawNames \cup {<<"0", "0", "0", "0", "2">>}

\* process_names(names, prefix) with a list or a tuple of names, some of
\* them perhaps not a str, with a single name, or with an int
ProcessNames ==
    /\ out = Idle
    /\ \E prefix \in Prefixes :
         \/ \E names \in Batches(NamesToProcess \cup {NotAStr}, MaxBatch),
               names_type \in {"list", "tuple"} :
              out' = [op |-> "process_names", names |-> names,
                      type |-> names_type, is_str |-> FALSE,
                      prefix |-> prefix,
                      res |-> process_names(names, names_type, prefix)]
         \/ \E name \in NamesToProcess :
              out' = [op |-> "process_names", names |-> name,
                      type |-> "str", is_str |-> TRUE, prefix |-> prefix,
                      res |-> process_names(name, "str", prefix)]
         \/ out' = [op |-> "process_names", names |-> NotAStr,
                    type |-> "int", is_str |-> FALSE, prefix |-> prefix,
                    res |-> process_names(NotAStr, "int", prefix)]
    /\ UNCHANGED <<local, central, persistent_settings, cfg, tui>>

NextPrefix ==
    \/ EnsurePrefixes
    \/ EnsurePrefixesAgain
    \/ ProcessNames
    \/ Return

SpecPrefix == Init /\ [][NextPrefix]_vars

(***************************************************************************)
(* C19.                                                                    *)
(***************************************************************************)
IsEnsurePrefixes == out.op = "ensure_prefixes_on_list_of_names"

\* the name starts with the prefix
StartsWith(name, prefix) ==
    /\ Len(name) >= Len(prefix)
    /\ \A k \in DOMAIN prefix : name[k] = prefix[k]

\* C19: Prefix normalisation of requested names is idempotent and
\* order-preserving.  The list returned has the length of the list passed;
\* at each position stands the name passed at that position, as it is when
\* it starts with the prefix and with the prefix put in front when it does
\* not; normalising the list returned gives that list again; and
\* process_names, when it does not raise, returns this list for a list of
\* names and the one-name list for a single name.
C19_PrefixNormalisation ==
    /\ IsEnsurePrefixes
       => /\ Len(out.res) = Len(out.names)
          /\ \A i \in DOMAIN out.names :
               /\ StartsWith(out.names[i], out.prefix)
                  => out.res[i] = out.names[i]
               /\ ~StartsWith(out.names[i], out.prefix)
                  => out.res[i] = out.prefix \o out.names[i]
          /\ out.again => out.res = out.names
    /\ (out.op = "process_names" /\ ~out.res.raised)
       => LET passed == IF out.is_str THEN <<out.names>> ELSE out.names
          IN  /\ Len(out.res.names) = Len(passed)
              /\ \A i \in DOMAIN passed :
                   out.res.names[i] =
                       IF StartsWith(passed[i], out.prefix) THEN passed[i]
                       ELSE out.prefix \o passed[i]

\* ["00011", "sub-00002", "30303"] was normalised to ["sub-00011",
\* "sub-00002", "sub-30303"], and that list normalised again
C19_Witness ==
    /\ IsEnsurePrefixes
    /\ out.again
    /\ out.prefix = SubPrefix
    /\ out.res = << <<"s", "u", "b", "-", "0", "0", "0", "1", "1">>,
                    <<"s", "u", "b", "-", "0", "0", "0", "0", "2">>,
                    <<"s", "u", "b", "-", "3", "0", "3", "0", "3">> >>

(***************************************************************************)
(* The eighth specification: numbers are suggested in projects whose       *)
(* folder numbers have gaps.                                               *)
(***************************************************************************)
\* folders (subjects plus sessions) in local and central together
MaxGapFolders == 3

\* sub-7 / ses-7, -9, -9_id-a, -07, -08, -09
GapNames ==
    {Name(<<7>>, 0), Name(<<9>>, 0), Name(<<9>>, 1),
     Name(<<0, 7>>, 0), Name(<<0, 8>>, 0), Name(<<0, 9>>, 0)}

\* os.makedirs of a subject or session folder in either location
MakedirsGapped ==
    /\ out = Idle
    /\ NFolders(local) + NFolders(central) < MaxGapFolders
    /\ \E sub \in GapNames :
         \/ /\ sub \notin DOMAIN local
            /\ local' = AddSub(local, sub)
            /\ UNCHANGED central
         \/ /\ sub \notin DOMAIN central
            /\ central' = AddSub(central, sub)
            /\ UNCHANGED local
         \/ \E ses \in GapNames :
              \/ /\ sub \in DOMAIN local
                 /\ ses \notin local[sub]
                 /\ local' = AddSes(local, sub, ses)
                 /\ UNCHANGED central
              \/ /\ sub \in DOMAIN central
                 /\ ses \notin central[sub]
                 /\ central' = AddSes(central, sub, ses)
                 /\ UNCHANGED local
    /\ UNCHANGED <<out, persistent_settings, cfg, tui>>

\* get_max_sub_or_ses_num_and_value_length on the folder names of a level,
\* as get_next_sub_or_ses_number passes them
GetMax ==
    /\ out = Idle
    /\ \E sub \in {NoSub} \cup DOMAIN local \cup DOMAIN central,
          local_only \in BOOLEAN, d \in DefaultDigits, rev \in BOOLEAN :
         \E folder_names \in {search_project_for_sub_or_ses_names(
                                  local, central, sub, local_only, rev)} :
           \E all_folders \in
                  {Listing(Range(folder_names.local \o folder_names.central),
                           rev)} :
             out' = [op |-> "get_max", sub |-> sub, local_only |-> local_only,
                     d |-> d, all_folders |-> all_folders,
                     res |-> get_max_sub_or_ses_num_and_value_length(
                                 all_folders, d)]
    /\ UNCHANGED <<local, central, persistent_settings, cfg, tui>>

NextSuggest ==
    \/ MakedirsGapped
    \/ Rmtree
    \/ GetNext
    \/ GetMax
    \/ Return

SpecSuggest == Init /\ [][NextSuggest]_vars

IsGetMax == out.op = "get_max"

\* C21: When names exist at the searched level,
\* get_max_sub_or_ses_num_and_value_length raises exactly when their values
\* do not all have the same number of digits, and then no number is
\* suggested; it returns the pair (largest value, number of digits) exactly
\* when one number of digits occurs.
C21_InconsistentDigitsRaise ==
    /\ IsGetMax
       => LET S == Range(out.all_folders)
          IN  S # {}
              => /\ S = Searched(out.sub, out.local_only)
                 /\ out.res.err <=> Cardinality(WidthsOf(S)) # 1
                 /\ ~out.res.err
                    => /\ out.res.max_existing_num = MaxOf(ValuesOf(S))
                       /\ {out.res.num_value_digits} = WidthsOf(S)
    /\ IsGetNext
       => LET S == Searched(out.sub, out.local_only)
          IN  (S # {} /\ Cardinality(WidthsOf(S)) # 1)
              => /\ out.res.err
                 /\ out.res.digits = <<>>

\* with sub-9 in local and sub-07 in central the function raised
C21_Witness ==
    /\ IsGetMax
    /\ out.sub = NoSub
    /\ Range(out.all_folders) = {Name(<<9>>, 0), Name(<<0, 7>>, 0)}
    /\ DOMAIN local = {Name(<<9>>, 0)}
    /\ out.res.err

(***************************************************************************)
(* C30.                                                                    *)
(***************************************************************************)
\* C30: A suggested name is always creatable.  Whenever
\* get_next_sub_or_ses_number returns a value for the names at the searched
\* level, that value is greater than the value of every one of those names
\* and has their number of digits, and the suggested subject name, passed
\* as a candidate against the same project, raises no issue.
C30_SuggestedNameCreatable ==
    (IsGetNext /\ ~out.res.err)
    => LET S == Searched(out.sub, out.local_only)
           candidate == Name(out.res.digits, 0)
       IN  /\ \A n \in S : sub_or_ses_value_to_int(n.val)
                             < sub_or_ses_value_to_int(candidate.val)
           /\ S # {} => WidthsOf(S) = {Len(candidate.val)}
           /\ out.sub = NoSub
              => \A rev \in BOOLEAN :
                   ~validate_names_against_project(
                        local, central, <<candidate>>, <<>>, out.local_only,
                        "error", rev).raised

(***************************************************************************)
(* The ninth specification: folders are made from names with tags.         *)
(***************************************************************************)
\* folders (subjects plus sessions) made in the local project
MaxTagFolders == 3

\* project.make_folders on names with tags: the tags of every name are
\* replaced, then the folders are made from the names
make_folders_with_tags(loc, cen, sub_names, ses_names, rev, now) ==
    make_folders_from_strings(
        loc, cen,
        [i \in DOMAIN sub_names |-> expand_tags(sub_names[i], now)],
        [i \in DOMAIN ses_names |-> expand_tags(ses_names[i], now)],
        rev)

\* the tags of one name are replaced
ExpandTags ==
    /\ out = Idle
    /\ \E name \in TagSubNames \cup TagSesNames, now \in Clocks :
         out' = [op |-> "expand_tags", name |-> name, now |-> now,
                 res |-> expand_tags(name, now)]
    /\ UNCHANGED <<local, central, persistent_settings, cfg, tui>>

\* project.make_folders(sub_names, ses_names) with tags in the names
MakeFoldersWithTags ==
    /\ out = Idle
    /\ \E sub_name \in TagSubNames, raw_ses \in Batches(TagSesNames, MaxBatch),
          rev \in BOOLEAN, now \in Clocks :
         \E made \in {make_folders_with_tags(local, central, <<sub_name>>,
                                             raw_ses, rev, now)} :
           /\ NFolders(made.local) <= MaxTagFolders
           /\ local' = made.local
           /\ out' = [op |-> "make_folders_with_tags", now |-> now,
                      raw_sub |-> <<sub_name>>, raw_ses |-> raw_ses,
                      sub_names |-> made.sub_names,
                      ses_names |-> made.ses_names,
                      raised |-> made.raised, error |-> made.error]
    /\ UNCHANGED <<central, persistent_settings, cfg, tui>>

NextTags ==
    \/ ExpandTags
    \/ MakeFoldersWithTags
    \/ Rmtree
    \/ Return

SpecTags == Init /\ [][NextTags]_vars

(***************************************************************************)
(* C22.                                                                    *)
(***************************************************************************)
\* the folder name has one of the tags in it
HasTag(name) == \E key \in TagKeys : Contains(name, tags(key))

\* the tails of the session folders of the local project
LocalSesTails ==
    {KnownTails[ses.sfx] :
        ses \in {n \in UNION {local[sub] : sub \in DOMAIN local} : n.sfx > 0}}

\* what stands for "@DATETIME@" as the claim has it: "date-YYYYMMDDTHHMMSS"
DateTimeAsStated(now) ==
    <<"d", "a", "t", "e", "-">> \o now.date \o <<"T">> \o now.time

\* what stands for "@DATETIME@": "datetime-YYYYMMDDTHHMMSS"
DateTimeAsTested(now) ==
    <<"d", "a", "t", "e", "t", "i", "m", "e", "-">> \o now.date \o <<"T">>
    \o now.time

\* what tag expansion does to a name, with "@DATETIME@" replaced as stated
\* or as tested: the name keeps what comes before its first tag, has the
\* date where "@DATE@" was, the time where "@TIME@" was and the combined
\* value where "@DATETIME@" was, has no tag left, and is unchanged when it
\* had none; the names folders are made from are expanded so; and no
\* folder of the project has a tag in its name
TagsExpanded(as_stated) ==
    /\ out.op = "expand_tags"
       => LET datetime == IF as_stated THEN DateTimeAsStated(out.now)
                          ELSE DateTimeAsTested(out.now)
          IN  /\ ~HasTag(out.res)
              /\ ~HasTag(out.name) => out.res = out.name
              /\ HasTag(out.name)
                 => Take(out.res, Find(out.name, "@") - 1)
                      = Take(out.name, Find(out.name, "@") - 1)
              /\ Contains(out.name, tags("date"))
                 => Contains(out.res, out.now.date)
              /\ Contains(out.name, tags("time"))
                 => Contains(out.res, out.now.time)
              /\ Contains(out.name, tags("datetime"))
                 => Contains(out.res, <<"_">> \o datetime)
    /\ \A tail \in LocalSesTails : ~HasTag(tail)
    /\ (out.op = "make_folders_with_tags" /\ out.error # "not_unique")
       => LET datetime == IF as_stated THEN DateTimeAsStated(out.now)
                          ELSE DateTimeAsTested(out.now)
          IN  /\ Len(out.ses_names) = Len(out.raw_ses)
              /\ \A i \in DOMAIN out.raw_ses :
                   /\ ~HasTag(out.ses_names[i])
                   /\ Contains(out.raw_ses[i], tags("datetime"))
                      => Contains(out.ses_names[i], <<"_">> \o datetime)

\* C22 as stated: tag expansion replaces every @DATE@, @TIME@ and
\* @DATETIME@ of a name with the current date (YYYYMMDD), time (HHMMSS) or
\* the combined value date-YYYYMMDDTHHMMSS, no folder made has a tag in its
\* name, and a name without tags is unchanged.
C22_TagsExpandedAsStated == TagsExpanded(TRUE)

\* C22 amended: as stated, except that the combined value is
\* datetime-YYYYMMDDTHHMMSS.
C22_TagsExpandedDatetimeKey == TagsExpanded(FALSE)

\* "sub-001" was made with the session passed as "ses-001_@DATETIME@" on
\* 2023-11-01 at 12:00:00: the folder is
\* "ses-001_datetime-20231101T120000"
C22_Witness ==
    /\ out.op = "make_folders_with_tags"
    /\ ~out.raised
    /\ out.raw_ses = << <<"s", "e", "s", "-", "0", "0", "1", "_">>
                        \o tags("datetime") >>
    /\ out.ses_names =
         << <<"s", "e", "s", "-", "0", "0", "1", "_", "d", "a", "t", "e", "t",
              "i", "m", "e", "-", "2", "0", "2", "3", "1", "1", "0", "1", "T",
              "1", "2", "0", "0", "0", "0">> >>
    /\ LocalSesTails = {Drop(out.ses_names[1], 7)}

(***************************************************************************)
(* C23.                                                                    *)
(***************************************************************************)
\* the value is of a type the canonical configs permit for the key
PermittedValue(key, value) ==
    CASE key \in {"local_path", "central_path"} -> value.type \in {"str", "Path"}
      [] key = "connection_method" ->
            value.type = "str" /\ value.str \in {"ssh", "local_filesystem"}
      [] key \in {"central_host_id", "central_host_username"} ->
            value.type \in {"str", "NoneType"}
      [] key \in {"overwrite_old_files", "show_transfer_progress"} ->
            value.type = "bool"
      [] key = "transfer_verbosity" ->
            value.type = "str" /\ value.str \in {"v", "vv"}
      [] OTHER -> FALSE

\* C23: check_dict_values_raise_on_fail accepts a config only if its keys
\* are the canonical keys in the canonical order; a config with exactly
\* the canonical keys and values of permitted types, but the keys in
\* another order, is rejected with the ConfigError of the key order.
C23_KeyOrderChecked ==
    IsCheckDictValues
    => LET config_dict == out.config_dict
           keys == ConfigKeys(config_dict)
       IN  /\ ~out.res.raised => keys = CanonicalKeys
           /\ (/\ Range(keys) = Range(CanonicalKeys)
               /\ Len(keys) = Len(CanonicalKeys)
               /\ keys # CanonicalKeys
               /\ \A i \in DOMAIN config_dict :
                    PermittedValue(config_dict[i].key, config_dict[i].value))
              => /\ out.res.raised
                 /\ out.res.exception = "ConfigError"
                 /\ out.res.check = "order"

\* the good config with "central_path" before "local_path" was rejected
\* for the order of its keys
C23_Witness ==
    /\ IsCheckDictValues
    /\ ConfigKeys(out.config_dict)
         = <<"central_path", "local_path">> \o SubSeq(CanonicalKeys, 3, 8)
    /\ \A i \in DOMAIN out.config_dict :
         out.config_dict[i].value = GoodConfig[i].value
    /\ out.res = Raised("ConfigError", "order", "")

(***************************************************************************)
(* C24.                                                                    *)
(***************************************************************************)
\* a host id or user name that is a string with something in it
NonEmpty(value) == value.type = "str" /\ value.str # ""

\* C24: A config with connection_method "ssh" is accepted only if
\* central_host_id and central_host_username are both non-empty, and is
\* rejected for them only then; the good config with "local_filesystem"
\* and both None is accepted; and the local project folder is made exactly
\* when the config is accepted.
C24_SshNeedsHostAndFolderMadeLast ==
    IsCheckDictValues
    => LET config_dict == out.config_dict
           is_ssh == \E i \in DOMAIN config_dict :
                        /\ config_dict[i].key = "connection_method"
                        /\ config_dict[i].value = StrValue("ssh")
           given(key) == \E i \in DOMAIN config_dict :
                            /\ config_dict[i].key = key
                            /\ NonEmpty(config_dict[i].value)
       IN  /\ (~out.res.raised /\ is_ssh)
              => given("central_host_id") /\ given("central_host_username")
           /\ out.res.check = "ssh"
              => /\ is_ssh
                 /\ ~(given("central_host_id") /\ given("central_host_username"))
                 /\ out.res.exception = "ConfigError"
           /\ config_dict = GoodConfig => ~out.res.raised
           /\ out.res.made <=> ~out.res.raised

\* a config with "ssh", a host id and a user name was accepted and the
\* project folder made
C24_Witness ==
    /\ IsCheckDictValues
    /\ [key |-> "connection_method", value |-> StrValue("ssh")]
         \in Range(out.config_dict)
    /\ [key |-> "central_host_id", value |-> StrValue("host")]
         \in Range(out.config_dict)
    /\ [key |-> "central_host_username", value |-> StrValue("user")]
         \in Range(out.config_dict)
    /\ ~out.res.raised
    /\ out.res.made

(***************************************************************************)
(* C25.                                                                    *)
(***************************************************************************)
IsProcessNames == out.op = "process_names"

\* the name as it is after prefix normalisation
Normalised(name, prefix) ==
    IF StartsWith(name, prefix) THEN name ELSE prefix \o name

\* C25: process_names raises when the input is neither a string nor a
\* list of strings; for a list of strings it raises when two of the names
\* are equal after prefix normalisation (a bare name and its prefixed form
\* among them) and otherwise returns the normalised names, pairwise
\* distinct; a single string is treated as the list of that one string.
C25_ProcessNames ==
    IsProcessNames
    => LET is_list_of_str ==
               /\ out.type = "list"
               /\ \A i \in DOMAIN out.names : out.names[i] # NotAStr
           requested == IF out.type = "str" THEN <<out.names>> ELSE out.names
           clash == \E i, j \in DOMAIN requested :
                       /\ i # j
                       /\ Normalised(requested[i], out.prefix)
                            = Normalised(requested[j], out.prefix)
       IN  IF ~(out.type = "str" \/ is_list_of_str)
           THEN out.res.raised /\ out.res.error = "type"
           ELSE IF clash
           THEN out.res.raised /\ out.res.error = "duplicates"
           ELSE /\ ~out.res.raised
                /\ out.res.names =
                     [i \in DOMAIN requested |->
                        Normalised(requested[i], out.prefix)]
                /\ \A i, j \in DOMAIN out.res.names :
                     i # j => out.res.names[i] # out.res.names[j]
                /\ out.type = "str" => Len(out.res.names) = 1

\* process_names raised for ["00002", "sub-00002"] with the prefix "sub-"
C25_Witness ==
    /\ IsProcessNames
    /\ out.type = "list"
    /\ out.prefix = SubPrefix
    /\ out.names = << <<"0", "0", "0", "0", "2">>,
                      <<"s", "u", "b", "-", "0", "0", "0", "0", "2">> >>
    /\ out.res.raised
    /\ out.res.error = "duplicates"

(***************************************************************************)
(* The tenth specification: the datatype checkboxes of the create and the  *)
(* transfer tab, on a project whose settings are written meanwhile.        *)
(***************************************************************************)
\* Checkbox.Changed messages of one widget not handled yet
MaxPending == 1

\* the datatypes, in the order of the keys of the dict of checkboxes
Datatypes == <<"behav", "ephys", "funcimg", "anat">>

\* a dict of checkboxes with these datatypes on
CheckboxesOn(on) == [d \in Range(Datatypes) |-> d \in on]

\* "tui" settings written to the settings file that hold the checkboxes of
\* both tabs
TuiSettings ==
    {[create_checkboxes_on |-> CheckboxesOn(Range(Datatypes)),
      transfer_checkboxes_on |-> CheckboxesOn(Range(Datatypes))],
     [create_checkboxes_on |-> CheckboxesOn({"behav"}),
      transfer_checkboxes_on |-> CheckboxesOn({"ephys", "anat"})]}

\* self.settings_key
settings_key(create_or_transfer) ==
    IF create_or_transfer = "create" THEN "create_checkboxes_on"
    ELSE "transfer_checkboxes_on"

\* selected_datatypes: the datatypes whose checkbox is on, in key order
selected_datatypes(datatype_config) ==
    SelectSeq(Datatypes, LAMBDA d : datatype_config[d])

\* the settings are saved as they are, without the checkboxes
settings_without_checkboxes(file, key, datatype_config) ==
    save_persistent_settings(load_persistent_settings(file))

\* the end of on_checkbox_changed: load, set tui[settings_key], save
settings_with_checkboxes(file, key, datatype_config) ==
    LET loaded == load_persistent_settings(file)
    IN  save_persistent_settings(
            [loaded EXCEPT !.tui = DictUpdate(@, [k \in {key} |->
                                                    datatype_config])])

\* project._update_persistent_setting("tui", value)
UpdateTuiSetting ==
    /\ out = Idle
    /\ \E value \in TuiSettings :
         /\ persistent_settings' =
                update_persistent_setting(persistent_settings, "tui", value)
         /\ out' = [op |-> "update_persistent_setting",
                    setting_name |-> "tui", value |-> value]
    /\ UNCHANGED <<local, central, cfg, tui>>

\* DatatypeCheckboxes(project, create_or_transfer) and its compose: the
\* dict of checkboxes is read from the loaded settings, a KeyError when
\* the settings do not hold it
DatatypeCheckboxes ==
    /\ out = Idle
    /\ \E create_or_transfer \in Tabs :
         \E loaded \in {load_persistent_settings(persistent_settings)} :
           LET key == settings_key(create_or_transfer)
           IN  /\ ~tui.checkboxes[create_or_transfer].mounted
               /\ persistent_settings' =
                      init_persistent_settings(persistent_settings)
               /\ IF key \in DOMAIN loaded.tui
                  THEN /\ tui' = [tui EXCEPT
                              !.checkboxes[create_or_transfer] =
                                  [mounted |-> TRUE,
                                   settings_key |-> key,
                                   datatype_config |-> loaded.tui[key],
                                   checkbox |-> loaded.tui[key],
                                   changed |-> 0]]
                       /\ out' = [op |-> "DatatypeCheckboxes",
                                  create_or_transfer |-> create_or_transfer,
                                  loaded |-> loaded, raised |-> FALSE,
                                  exception |-> "none"]
                  ELSE /\ tui' = tui
                       /\ out' = [op |-> "DatatypeCheckboxes",
                                  create_or_transfer |-> create_or_transfer,
                                  loaded |-> loaded, raised |-> TRUE,
                                  exception |-> "KeyError"]
    /\ UNCHANGED <<local, central, cfg>>

\* the user clicks a checkbox: its value changes and Checkbox.Changed is
\* posted to the widget
ToggleCheckbox ==
    /\ \E tab \in Tabs, datatype \in Range(Datatypes) :
         /\ tui.checkboxes[tab].mounted
         /\ tui.checkboxes[tab].changed < MaxPending
         /\ tui' = [tui EXCEPT
                !.checkboxes[tab].checkbox[datatype] = ~@,
                !.checkboxes[tab].changed = @ + 1]
    /\ UNCHANGED <<local, central, out, persistent_settings, cfg>>

\* on_checkbox_changed
OnCheckboxChanged ==
    /\ out = Idle
    /\ \E tab \in Tabs :
         /\ tui.checkboxes[tab].mounted
         /\ tui.checkboxes[tab].changed > 0
         /\ \E datatype_config \in {tui.checkboxes[tab].checkbox} :
              /\ tui' = [tui EXCEPT
                     !.checkboxes[tab].datatype_config = datatype_config,
                     !.checkboxes[tab].changed = @ - 1]
              /\ persistent_settings' =
                     settings_with_checkboxes(
                         persistent_settings,
                         tui.checkboxes[tab].settings_key, datatype_config)
         /\ out' = [op |-> "on_checkbox_changed", tab |-> tab]
    /\ UNCHANGED <<local, central, cfg>>

\* selected_datatypes()
SelectedDatatypes ==
    /\ out = Idle
    /\ \E tab \in Tabs :
         /\ tui.checkboxes[tab].mounted
         /\ out' = [op |-> "selected_datatypes", tab |-> tab,
                    res |-> selected_datatypes(
                                tui.checkboxes[tab].datatype_config)]
    /\ UNCHANGED <<local, central, persistent_settings, cfg, tui>>

NextCheckboxes ==
    \/ UpdateTuiSetting
    \/ UpdatePersistentSetting
    \/ DatatypeCheckboxes
    \/ ToggleCheckbox
    \/ OnCheckboxChanged
    \/ SelectedDatatypes
    \/ Return

SpecCheckboxes == Init /\ [][NextCheckboxes]_vars

(***************************************************************************)
(* C26.                                                                    *)
(***************************************************************************)
\* the settings in the file but for the checkboxes under the key
OtherSettings(file, key) ==
    LET loaded == load_persistent_settings(file)
    IN  [loaded EXCEPT !.tui = [k \in DOMAIN @ \ {key} |-> @[k]]]

\* C26: When on_checkbox_changed has handled a change, datatype_config
\* holds the value of every datatype checkbox, the settings in the file
\* hold datatype_config under tui[settings_key], and every other setting
\* in the file (top_level_folder, name_templates, the checkboxes of the
\* other tab) is as it was; selected_datatypes returns exactly the
\* datatypes whose value in datatype_config is true, each once.
C26_CheckboxesPersisted ==
    /\ [][(out = Idle /\ out'.op = "on_checkbox_changed")
          => LET widget == tui'.checkboxes[out'.tab]
                 key == widget.settings_key
             IN  /\ widget.datatype_config = widget.checkbox
                 /\ persistent_settings'.is_file
                 /\ persistent_settings'.settings.tui[key]
                      = widget.datatype_config
                 /\ OtherSettings(persistent_settings', key)
                      = OtherSettings(persistent_settings, key)
                 /\ tui'.checkboxes[CHOOSE t \in Tabs : t # out'.tab]
                      = tui.checkboxes[CHOOSE t \in Tabs : t # out'.tab]]_vars
    /\ [](out.op = "selected_datatypes"
          => /\ Range(out.res)
                  = {d \in Range(Datatypes) :
                        tui.checkboxes[out.tab].datatype_config[d]}
             /\ \A i, j \in DOMAIN out.res : i # j => out.res[i] # out.res[j])

\* the create tab's checkboxes were changed with the transfer tab's
\* mounted and the top level folder set to "derivatives": behav is off in
\* the widget and in the file
C26_Witness ==
    /\ out.op = "on_checkbox_changed"
    /\ out.tab = "create"
    /\ tui.checkboxes["transfer"].mounted
    /\ ~tui.checkboxes["create"].datatype_config["behav"]
    /\ tui.checkboxes["create"].datatype_config["ephys"]
    /\ persistent_settings.settings.top_level_folder = "derivatives"
    /\ ~persistent_settings.settings.tui["create_checkboxes_on"]["behav"]

(***************************************************************************)
(* C27.                                                                    *)
(***************************************************************************)
\* C27: For a project whose persistent settings are the defaults, a
\* DatatypeCheckboxes widget for the create or the transfer tab is
\* constructed from the loaded settings and starts with all four
\* datatypes checked.
C27_DefaultsGiveCheckedWidget ==
    (/\ out.op = "DatatypeCheckboxes"
     /\ out.loaded = get_persistent_settings_defaults)
    => /\ ~out.raised
       /\ tui.checkboxes[out.create_or_transfer].mounted
       /\ tui.checkboxes[out.create_or_transfer].checkbox
            = CheckboxesOn(Range(Datatypes))

(***************************************************************************)
(* The eleventh specification: names are appended to and inserted into    *)
(* the sub and ses inputs of a tab, and the inputs read as lists of names. *)
(***************************************************************************)
\* calls of append_ and insert_sub_or_ses_name_to_input
MaxInputCalls == 3

\* the names passed: "sub-1", "sub-2", "ses-1", "sub_2"
InputNames ==
    {<<"s", "u", "b", "-", "1">>, <<"s", "u", "b", "-", "2">>,
     <<"s", "e", "s", "-", "1">>, <<"s", "u", "b", "_", "2">>}

\* str.split(sep) with a separator of one character
RECURSIVE str_split(_, _)
str_split(str, sep) ==
    LET at == Find(str, sep)
    IN  IF at = 0 THEN <<str>>
        ELSE <<Take(str, at - 1)>> \o str_split(Drop(str, at), sep)

\* the spaces stay in the names
as_names_list_spaces_kept(value) == str_split(value, ",")

\* ClickableInput.as_names_list
as_names_list(value) == str_split(str_replace(value, <<" ">>, <<>>), ",")

\* insert_sub_or_ses_name_to_input on the values of the two inputs
insert_sub_or_ses_name_to_input(input, name) ==
    IF Take(name, 4) = SubPrefix THEN [input EXCEPT !.sub = name]
    ELSE IF Take(name, 4) = SesPrefix THEN [input EXCEPT !.ses = name]
    ELSE input

\* append_sub_or_ses_name_to_input on the values of the two inputs
append_sub_or_ses_name_to_input(input, name) ==
    LET appended(value) == IF value = <<>> THEN name
                           ELSE value \o <<",", " ">> \o name
        sub_done == IF Take(name, 4) = SubPrefix
                    THEN [input EXCEPT !.sub = appended(@)]
                    ELSE input
    IN  IF Take(name, 4) = SesPrefix
        THEN [sub_done EXCEPT !.ses = appended(@)]
        ELSE sub_done

\* tab.append_sub_or_ses_name_to_input(sub_input_key, ses_input_key, name)
AppendSubOrSesNameToInput ==
    /\ out = Idle
    /\ Len(tui.calls) < MaxInputCalls
    /\ \E name \in InputNames :
         tui' = [tui EXCEPT
                    !.input = append_sub_or_ses_name_to_input(@, name),
                    !.calls = Append(@, [op |-> "append", name |-> name])]
    /\ UNCHANGED <<local, central, out, persistent_settings, cfg>>

\* tab.insert_sub_or_ses_name_to_input(sub_input_key, ses_input_key, name)
InsertSubOrSesNameToInput ==
    /\ out = Idle
    /\ Len(tui.calls) < MaxInputCalls
    /\ \E name \in InputNames :
         tui' = [tui EXCEPT
                    !.input = insert_sub_or_ses_name_to_input(@, name),
                    !.calls = Append(@, [op |-> "insert", name |-> name])]
    /\ UNCHANGED <<local, central, out, persistent_settings, cfg>>

\* input.as_names_list() on the sub or the ses input
AsNamesList ==
    /\ out = Idle
    /\ \E which \in {"sub", "ses"} :
         out' = [op |-> "as_names_list", input |-> which,
                 res |-> as_names_list(tui.input[which])]
    /\ UNCHANGED <<local, central, persistent_settings, cfg, tui>>

NextInputs ==
    \/ AppendSubOrSesNameToInput
    \/ InsertSubOrSesNameToInput
    \/ AsNamesList
    \/ Return

SpecInputs == Init /\ [][NextInputs]_vars

(***************************************************************************)
(* C29.                                                                    *)
(***************************************************************************)
\* the prefix of the names an input takes
InputPrefix(which) == IF which = "sub" THEN SubPrefix ELSE SesPrefix

\* the names an input holds after the calls: an insert of a name with the
\* prefix of the input leaves that name alone, an append adds the name
RECURSIVE Held(_, _)
Held(calls, which) ==
    IF calls = <<>> THEN <<>>
    ELSE LET last == calls[Len(calls)]
             before == Held(SubSeq(calls, 1, Len(calls) - 1), which)
         IN  IF ~StartsWith(last.name, InputPrefix(which)) THEN before
             ELSE IF last.op = "insert" THEN <<last.name>>
             ELSE Append(before, last.name)

\* a call was made with this name
Called(op, name) ==
    tui'.calls = Append(tui.calls, [op |-> op, name |-> name])

\* the calls leave the inputs that do not match the prefix of the name as
\* they are, and an insert makes the name the value of the one that does
InputsChangedByPrefix ==
    \A name \in InputNames, op \in {"append", "insert"} :
       Called(op, name)
       => /\ \A which \in {"sub", "ses"} :
               ~StartsWith(name, InputPrefix(which))
               => tui'.input[which] = tui.input[which]
          /\ \A which \in {"sub", "ses"} :
               (op = "insert" /\ StartsWith(name, InputPrefix(which)))
               => tui'.input[which] = name

\* C29 as stated: after one or more appends to the empty inputs,
\* as_names_list on the sub input returns exactly the names that start
\* with "sub-" in call order, and on the ses input those that start with
\* "ses-"; a name with neither prefix changes no input, and an insert
\* replaces only the input that matches the prefix of the name.
C29_RoundTripAsStated ==
    /\ []((/\ out.op = "as_names_list"
           /\ tui.calls # <<>>
           /\ \A i \in DOMAIN tui.calls : tui.calls[i].op = "append")
          => out.res = Held(tui.calls, out.input))
    /\ [][InputsChangedByPrefix]_vars

\* C29: as_names_list on an input returns the names with the prefix of
\* the input that were appended since the input was empty or since the
\* last insert (that name first), in call order, when there is such a
\* name, and the list of the one empty string when there is none; a name
\* with neither prefix changes no input, and an insert replaces only the
\* input that matches the prefix of the name.
C29_RoundTrip ==
    /\ [](out.op = "as_names_list"
          => out.res = IF Held(tui.calls, out.input) = <<>> THEN << <<>> >>
                       ELSE Held(tui.calls, out.input))
    /\ [][InputsChangedByPrefix]_vars

\* "sub-1", "ses-1" and "sub-2" were appended to the empty inputs, and the
\* sub input read as ["sub-1", "sub-2"]
C29_Witness ==
    /\ out.op = "as_names_list"
    /\ out.input = "sub"
    /\ tui.calls = <<[op |-> "append", name |-> <<"s", "u", "b", "-", "1">>],
                     [op |-> "append", name |-> <<"s", "e", "s", "-", "1">>],
                     [op |-> "append", name |-> <<"s", "u", "b", "-", "2">>]>>
    /\ out.res = << <<"s", "u", "b", "-", "1">>, <<"s", "u", "b", "-", "2">> >>

(***************************************************************************)
(* The twelfth specification: the project manager screen.  Keys and        *)
(* buttons are pressed; the screen handles its messages one after the      *)
(* other, and handles the next only when the handler of the one before     *)
(* has returned.                                                           *)
(***************************************************************************)
\* keys and buttons pressed on the screen
MaxEvents == 3

\* the ids of the buttons on the screen: "Main Menu" and a button of a tab
ButtonIds == {"all_main_menu_buttons", "other_button"}

\* the handler is inside the wait loop of start_watchdog
InWaitLoop == tui.screen.handler \in {"while_true", "time_sleep"}

\* the user presses a key: events.Key is posted to the screen
PressKey ==
    /\ ~tui.screen.dismissed
    /\ tui.screen.handler # "raised"
    /\ tui.screen.posted < MaxEvents
    /\ tui' = [tui EXCEPT !.screen.messages = Append(@, "key"),
                          !.screen.posted = @ + 1]
    /\ UNCHANGED <<local, central, out, persistent_settings, cfg>>

\* the user presses a button: Button.Pressed is posted to the screen
PressButton ==
    /\ ~tui.screen.dismissed
    /\ tui.screen.handler # "raised"
    /\ tui.screen.posted < MaxEvents
    /\ \E id \in ButtonIds :
         tui' = [tui EXCEPT !.screen.messages = Append(@, id),
                            !.screen.posted = @ + 1]
    /\ UNCHANGED <<local, central, out, persistent_settings, cfg>>

\* on_key: start_watchdog schedules and starts the observer and enters
\* the wait loop
OnKey ==
    /\ ~tui.screen.dismissed
    /\ tui.screen.handler = "idle"
    /\ tui.screen.messages # <<>>
    /\ Head(tui.screen.messages) = "key"
    /\ tui' = [tui EXCEPT !.screen.messages = Tail(@),
                          !.screen.observer = "started",
                          !.screen.handler = "while_true"]
    /\ UNCHANGED <<local, central, out, persistent_settings, cfg>>

\* while True: the loop goes on to time.sleep(1)
WhileTrue ==
    /\ tui.screen.handler = "while_true"
    /\ tui' = [tui EXCEPT !.screen.handler = "time_sleep"]
    /\ UNCHANGED <<local, central, out, persistent_settings, cfg>>

\* time.sleep(1) returns
TimeSleep ==
    /\ tui.screen.handler = "time_sleep"
    /\ tui' = [tui EXCEPT !.screen.handler = "while_true"]
    /\ UNCHANGED <<local, central, out, persistent_settings, cfg>>

\* an exception is raised in the wait loop (an interrupt): the finally
\* clause stops and joins the observer, and the exception leaves on_key
\* and ends the application
Interrupt ==
    /\ InWaitLoop
    /\ tui' = [tui EXCEPT !.screen.observer = "stopped_and_joined",
                          !.screen.handler = "raised"]
    /\ UNCHANGED <<local, central, out, persistent_settings, cfg>>

\* on_button_pressed: "Main Menu" dismisses the screen
OnButtonPressed ==
    /\ ~tui.screen.dismissed
    /\ tui.screen.handler = "idle"
    /\ tui.screen.messages # <<>>
    /\ Head(tui.screen.messages) \in ButtonIds
    /\ tui' = [tui EXCEPT
           !.screen.messages = Tail(@),
           !.screen.dismissed =
               Head(tui.screen.messages) = "all_main_menu_buttons"]
    /\ UNCHANGED <<local, central, out, persistent_settings, cfg>>

NextScreen ==
    \/ PressKey
    \/ PressButton
    \/ OnKey
    \/ WhileTrue
    \/ TimeSleep
    \/ Interrupt
    \/ OnButtonPressed

\* the screen handles a message when its handler is idle, and the
\* interpreter goes on in the wait loop; nothing makes an interrupt happen
SpecScreen ==
    /\ Init
    /\ [][NextScreen]_vars
    /\ WF_vars(OnKey)
    /\ WF_vars(OnButtonPressed)
    /\ WF_vars(WhileTrue)
    /\ WF_vars(TimeSleep)

(***************************************************************************)
(* C28.                                                                    *)
(***************************************************************************)
\* "Main Menu" was pressed and the press is not handled yet
MainMenuPressed == "all_main_menu_buttons" \in Range(tui.screen.messages)

\* C28: Pressing "Main Menu" always leads to the screen being dismissed
\* (unless an exception has ended the application), also after key
\* presses, whose handler returns so that the button press is handled; and
\* the observer is stopped and joined whenever the wait loop is left.
C28_MainMenuDismisses ==
    /\ MainMenuPressed
          ~> (tui.screen.dismissed \/ tui.screen.handler = "raised")
    /\ [][(InWaitLoop /\ ~InWaitLoop')
          => tui'.screen.observer = "stopped_and_joined"]_vars

====
